---- MODULE Spec2Model ----
(***************************************************************************)
(* Catalog storage and CSV ingestion of TrendSensei.                       *)
(*                                                                         *)
(* The repository carries three revisions of the storage module:           *)
(*   - src/unnamed/part_000: DrizzleStorage and MemStorage over the        *)
(*     product_id/title/event product shape, ingestion by upsert;          *)
(*   - src/server/index.ts (lines 86..356): DrizzleStorage over the        *)
(*     name/brand product shape of src/shared/schema.ts, insert-only;      *)
(*   - src/unnamed/part_001: MemStorage over the name/brand shape, with    *)
(*     generated ids and no ingestion.                                     *)
(* The variable backend says which store the process was wired with:       *)
(* "mem" and "drizzle" are the two classes of part_000, "drizzleV1" is the *)
(* class of index.ts, "memV1" the class of part_001.                       *)
(***************************************************************************)
EXTENDS Integers, Sequences, FiniteSets, TLC

VARIABLES
    backend,          \* which IStorage implementation `storage` is
    products,         \* MemStorage.products (Map, insertion order) / the products table
    nextId,           \* gen_random_uuid() of the name/brand products table: ids handed out
    source,           \* the Readable passed in: a fresh upload, or the previous bytes again
    stream,           \* the rows csv() has emitted as "data" so far
    streamState,      \* "none" | "flowing" | "ended" | "errored" | "parserError"
    productsToInsert, \* the batch accumulated by the "data" handler
    promise,          \* the promise importProductsFromCsv returned: [state, value]
    dbWrite,          \* the awaited db.insert of the "end" handler: "none"|"pending"|"ok"|"failed"
    calls,            \* number of importProductsFromCsv calls made (also the logical time)
    directCalls,      \* number of createProduct / updateProduct calls made
    ret,              \* what the last createProduct / updateProduct call returned or threw
    hist,             \* history: the store just before the last batch write, while it is current
    twin,             \* a DrizzleStorage of part_000 given the calls a MemStorage is given
    second,           \* an importProductsFromCsv call running beside the one above
    seed,             \* seed() / the start-up seeding block: data/products.csv, its position
    users,            \* MemStorage.users (Map, insertion order) / the users table
    requests          \* the POST /api/auth/signup requests: each one's body and position

\* The variables the calls modelled by the variables above do not touch.
aside == <<twin, second, seed, users, requests>>

vars == <<backend, products, nextId, source, stream, streamState, productsToInsert,
          promise, dbWrite, calls, directCalls, ret, hist, aside>>

-----------------------------------------------------------------------------
(* Bounds of the model *)

MaxRows == 2          \* longest CSV stream (data rows)
MaxCalls == 2         \* importProductsFromCsv calls in one run
MaxDirectCalls == 1   \* createProduct / updateProduct calls in one run
MaxLimit == 2         \* largest limit a read is called with
MaxOffset == 1        \* largest offset a read is called with
MaxSeeds == 2         \* seed() calls in one run
MaxRequests == 3      \* signup requests in one run

-----------------------------------------------------------------------------
(* JavaScript values *)

Undefined == "#undefined"      \* row.x when the CSV has no such column / cell
Null == "#null"                \* null
NaN == -999999                 \* the number NaN (parseInt of a non-number)
InvalidDate == -1              \* new Date(x) for an unparseable x (its time is NaN)

\* String(v): the text of v; String(undefined) is the text "undefined".
String(v) == IF v = Undefined THEN "undefined" ELSE v

\* JavaScript truthiness of a CSV cell: undefined and "" are falsy, any other text is truthy.
Truthy(v) == v # Undefined /\ v # ""

\* parseInt(v, 10) on the texts the model uses: leading integer digits, else NaN.
IntPrefix ==
    ("0" :> 0) @@ ("3" :> 3) @@ ("5" :> 5) @@ ("7" :> 7) @@ ("10" :> 10) @@ ("20" :> 20) @@
    ("30" :> 30) @@ ("40" :> 40) @@ ("50" :> 50) @@ ("80" :> 80) @@ ("95" :> 95) @@
    ("100" :> 100) @@ ("120" :> 120) @@ ("4.0" :> 4) @@ ("3.5" :> 3) @@ ("0.1" :> 0)

ParseInt(v) == IF v \in DOMAIN IntPrefix THEN IntPrefix[v] ELSE NaN

\* s.toLowerCase() on the texts the model uses.
LowerTable ==
    ("TRUE" :> "true") @@ ("True" :> "true") @@ ("FALSE" :> "false") @@
    ("Widget" :> "widget") @@ ("Gadget" :> "gadget") @@ ("Gizmo" :> "gizmo") @@
    ("Tools" :> "tools") @@ ("NULL" :> "null") @@ ("Diwali" :> "diwali")

ToLowerCase(s) == IF s \in DOMAIN LowerTable THEN LowerTable[s] ELSE s

\* row.x?.toLowerCase() === 'true'
IsTrueText(v) == v # Undefined /\ ToLowerCase(v) = "true"

\* new Date(v): the texts that are dates, as instants (yyyymmdd).
DateTable == ("2024-01-01" :> 20240101) @@ ("2024-02-01" :> 20240201)

NewDate(v) == IF v \in DOMAIN DateTable THEN DateTable[v] ELSE InvalidDate

\* new Date() / now(): the current instant, t being the logical time.
Now(t) == 20250000 + t

\* A decimal text, as hundredths (parseFloat of the texts the model uses; the value the
\* database reads from a numeric literal). Texts outside the table are not numbers.
DecimalTable ==
    ("0" :> 0) @@ ("3" :> 300) @@ ("5" :> 500) @@ ("20" :> 2000) @@ ("40" :> 4000) @@
    ("50" :> 5000) @@ ("75" :> 7500) @@ ("80" :> 8000) @@ ("95" :> 9500) @@
    ("100" :> 10000) @@ ("120" :> 12000) @@ ("4.0" :> 400) @@ ("3.5" :> 350) @@
    ("0.1" :> 10) @@ ("-5" :> -500) @@ ("-5.00" :> -500) @@
    ("0.00" :> 0) @@ ("3.00" :> 300) @@ ("5.00" :> 500) @@ ("20.00" :> 2000) @@
    ("40.00" :> 4000) @@ ("50.00" :> 5000) @@ ("75.00" :> 7500) @@ ("80.00" :> 8000) @@
    ("95.00" :> 9500) @@ ("100.00" :> 10000) @@ ("120.00" :> 12000) @@ ("4.00" :> 400) @@
    ("3.50" :> 350) @@ ("0.10" :> 10)

IsDecimalText(v) == v \in DOMAIN DecimalTable

-----------------------------------------------------------------------------
(* The product_id/title/event product shape (part_000) *)

\* The CSV columns the "data" handler reads.
CsvColumns ==
    {"product_id", "date", "title", "category", "price", "rating", "reviews",
     "availability", "competitor_price", "promotion_flag", "estimated_demand",
     "cost_price", "profit_margin", "event", "event_impact", "ad_spend", "market_share"}

\* The products table behind insertProductSchema for this shape (shared/schema of the
\* same revision): the columns of the data model, a text identifier, title and category,
\* decimal price, rating and margin, integer review count and demand, optional decimals
\* and event text.
RequiredTextColumns == {"product_id", "title", "category"}
RequiredDecimalColumns == {"price", "rating", "profit_margin"}
RequiredIntegerColumns == {"reviews", "estimated_demand"}
OptionalDecimalColumns ==
    {"competitor_price", "cost_price", "event_impact", "ad_spend", "market_share"}
OptionalTextColumns == {"event"}
DecimalColumns == RequiredDecimalColumns \cup OptionalDecimalColumns

\* The object the "data" handler hands to insertProductSchema.parse.
RowToInsertProduct(row) ==
    [product_id       |-> row.product_id,
     date             |-> NewDate(row.date),
     title            |-> row.title,
     category         |-> row.category,
     price            |-> String(row.price),
     rating           |-> String(row.rating),
     reviews          |-> ParseInt(row.reviews),
     availability     |-> IsTrueText(row.availability),
     competitor_price |-> IF Truthy(row.competitor_price)
                          THEN String(row.competitor_price) ELSE Null,
     promotion_flag   |-> IsTrueText(row.promotion_flag),
     estimated_demand |-> ParseInt(row.estimated_demand),
     cost_price       |-> IF Truthy(row.cost_price) THEN String(row.cost_price) ELSE Null,
     profit_margin    |-> String(row.profit_margin),
     event            |-> IF Truthy(row.event) /\ row.event # "NULL" THEN row.event ELSE Null,
     event_impact     |-> IF Truthy(row.event_impact) THEN String(row.event_impact) ELSE Null,
     ad_spend         |-> IF Truthy(row.ad_spend) THEN String(row.ad_spend) ELSE Null,
     market_share     |-> IF Truthy(row.market_share) THEN String(row.market_share) ELSE Null]

\* insertProductSchema.parse succeeds: createInsertSchema turns a text or decimal column
\* into z.string(), an integer column into z.number(), a timestamp into z.date(); a
\* notNull column is required, a nullable one accepts null. z.string() accepts any
\* text (also "" and "undefined"), z.number() rejects NaN, z.date() an invalid date.
InsertProductSchemaAccepts(p) ==
    /\ \A c \in RequiredTextColumns \cup RequiredDecimalColumns : p[c] # Undefined /\ p[c] # Null
    /\ \A c \in RequiredIntegerColumns : p[c] # NaN
    /\ p.date # InvalidDate

\* The CSV rows the model feeds. RowA1 and RowA2 are well-formed.
RowA1 ==
    [product_id |-> "A1", date |-> "2024-01-01", title |-> "Widget", category |-> "Tools",
     price |-> "100", rating |-> "4.0", reviews |-> "10", availability |-> "TRUE",
     competitor_price |-> "95", promotion_flag |-> "false", estimated_demand |-> "30",
     cost_price |-> "80", profit_margin |-> "20", event |-> "Diwali", event_impact |-> "3",
     ad_spend |-> "5", market_share |-> "0.1"]

RowA2 ==
    [RowA1 EXCEPT !.product_id = "A2", !.title = "Gadget", !.category = "Toys",
                  !.price = "50", !.rating = "3.5",
                  !.profit_margin = "40", !.availability = Undefined, !.event = "NULL",
                  !.event_impact = "", !.estimated_demand = "20"]

\* RowA1 re-priced: the same identifier with other field values, now sold at a loss.
RowA1Repriced ==
    [RowA1 EXCEPT !.price = "120", !.event = "", !.cost_price = Undefined,
                  !.profit_margin = "-5"]

\* A row of a CSV that has no price cell and no margin cell.
RowNoPrice ==
    [RowA2 EXCEPT !.product_id = "A3", !.title = "Gizmo", !.price = Undefined,
                  !.profit_margin = Undefined]

\* A row whose review count is not a number.
RowBadReviews == [RowA2 EXCEPT !.product_id = "A3", !.title = "Gizmo", !.reviews = "abc"]

\* A row whose optional decimals carry the text NULL.
RowNullText ==
    [RowA2 EXCEPT !.competitor_price = "NULL", !.market_share = "NULL", !.ad_spend = "",
                  !.event_impact = "NULL"]

Rows == {RowA1, RowA2, RowA1Repriced, RowNoPrice, RowBadReviews, RowNullText}

-----------------------------------------------------------------------------
(* The name/brand product shape (src/shared/schema.ts, DrizzleStorage of index.ts) *)

V1RequiredTextColumns == {"name", "category", "brand"}
V1DecimalColumns == {"price", "rating", "profitMargin"}
V1IntegerColumns == {"reviewCount", "salesVolume", "stockLevel"}
V1JsonColumns == {"competitorPrices", "locationData"}

\* JSON.parse on the texts the model uses; any other text throws a SyntaxError.
JsonTable == ("{}" :> "{}") @@ ("{\"amazon\":95}" :> "{amazon:95}")

JsonParses(v) == v \in DOMAIN JsonTable

\* The "data" handler's try block throws before insertProductSchema.parse is reached.
V1RowThrows(row) ==
    \/ Truthy(row.competitorPrices) /\ ~JsonParses(row.competitorPrices)
    \/ Truthy(row.locationData) /\ ~JsonParses(row.locationData)

\* The object the "data" handler hands to insertProductSchema.parse (t: the time).
V1RowToInsertProduct(row, t) ==
    [name             |-> row.name,
     category         |-> row.category,
     brand            |-> row.brand,
     description      |-> IF Truthy(row.description) THEN row.description ELSE Null,
     price            |-> String(row.price),
     rating           |-> String(row.rating),
     profitMargin     |-> String(row.profitMargin),
     salesVolume      |-> ParseInt(row.salesVolume),
     stockLevel       |-> ParseInt(row.stock),
     reviewCount      |-> ParseInt(row.reviewCount),
     trending         |-> IsTrueText(row.trending),
     competitorPrices |-> IF Truthy(row.competitorPrices)
                          THEN JsonTable[row.competitorPrices] ELSE "{}",
     locationData     |-> IF Truthy(row.locationData)
                          THEN JsonTable[row.locationData] ELSE "{}",
     launchDate       |-> IF Truthy(row.launchDate) THEN NewDate(row.launchDate) ELSE Now(t)]

\* insertProductSchema.parse of src/shared/schema.ts succeeds.
V1InsertProductSchemaAccepts(p) ==
    /\ \A c \in V1RequiredTextColumns \cup V1DecimalColumns : p[c] # Undefined /\ p[c] # Null
    /\ \A c \in V1IntegerColumns : p[c] # NaN
    /\ p.launchDate # InvalidDate

V1RowOk ==
    [name |-> "Widget", category |-> "Tools", brand |-> "Acme", description |-> "",
     price |-> "100", rating |-> "4.0", profitMargin |-> "20", salesVolume |-> "7",
     stock |-> "3", reviewCount |-> "10", trending |-> "True", competitorPrices |-> "{}",
     locationData |-> Undefined, launchDate |-> "2024-01-01"]

V1RowNoPrice == [V1RowOk EXCEPT !.name = "Gizmo", !.price = Undefined]

V1RowBadJson == [V1RowOk EXCEPT !.name = "Gizmo", !.competitorPrices = "oops"]

V1RowNoBrand == [V1RowOk EXCEPT !.name = "Gadget", !.brand = Undefined, !.launchDate = ""]

V1Rows == {V1RowOk, V1RowNoPrice, V1RowBadJson, V1RowNoBrand}

-----------------------------------------------------------------------------
(* MemStorage: products is a Map<string, Product>, modelled as the sequence of its  *)
(* entries [key, value] in insertion order.                                         *)

RECURSIVE IndexOfKey(_, _, _)
\* The position of key k among the first n entries of map m, 0 when it has none.
IndexOfKey(m, k, n) ==
    IF n = 0 THEN 0
    ELSE IF m[n].key = k THEN n
    ELSE IndexOfKey(m, k, n - 1)

MapHas(m, k) == IndexOfKey(m, k, Len(m)) # 0

MapGet(m, k) == m[IndexOfKey(m, k, Len(m))].value

\* A set that leaves an existing key with the value it has.
MapSetIfAbsent(m, k, v) ==
    IF MapHas(m, k) THEN m ELSE Append(m, [key |-> k, value |-> v])

\* Map.set: an existing key keeps its place and takes the new value, a new key is appended.
MapSet(m, k, v) ==
    IF MapHas(m, k)
    THEN [m EXCEPT ![IndexOfKey(m, k, Len(m))] = [key |-> k, value |-> v]]
    ELSE Append(m, [key |-> k, value |-> v])

\* The spread with its operands swapped: { ...updates, ...product }.
SpreadProductLast(product, updates) ==
    [f \in DOMAIN product \cup DOMAIN updates |->
        IF f \in DOMAIN product THEN product[f] ELSE updates[f]]

\* { ...product, ...updates }
Spread(product, updates) ==
    [f \in DOMAIN product \cup DOMAIN updates |->
        IF f \in DOMAIN updates THEN updates[f] ELSE product[f]]

MemCreateProduct(m, insertProduct) == MapSet(m, insertProduct.product_id, insertProduct)

MemUpdateProduct(m, id, updates) ==
    IF ~MapHas(m, id) THEN m
    ELSE MapSet(m, id, Spread(MapGet(m, id), updates))

RECURSIVE MemForEachCreate(_, _)
\* productsToInsert.forEach(p => this.createProduct(p))
MemForEachCreate(m, batch) ==
    IF batch = <<>> THEN m
    ELSE MemForEachCreate(MemCreateProduct(m, Head(batch)), Tail(batch))

\* MemStorage of part_001 (name/brand shape): createProduct stores the product under a
\* fresh randomUUID(), with description || null, trending || false and createdAt.
V1MemProduct(insertProduct, id, now) ==
    Spread(insertProduct,
           [description |-> IF insertProduct.description \in {Null, Undefined, ""}
                            THEN Null ELSE insertProduct.description,
            trending    |-> insertProduct.trending,
            id          |-> id,
            createdAt   |-> now])

V1MemCreateProduct(m, insertProduct, id, now) ==
    MapSet(m, id, V1MemProduct(insertProduct, id, now))

-----------------------------------------------------------------------------
(* DrizzleStorage: products is the rows of the products table. A statement either   *)
(* takes effect as a whole or fails and changes nothing.                            *)

\* The text the database returns for a decimal(_, 2) value (hundredths -> text).
HundredthsText ==
    (-500 :> "-5.00") @@ (0 :> "0.00") @@ (10 :> "0.10") @@ (300 :> "3.00") @@ (350 :> "3.50") @@
    (400 :> "4.00") @@ (500 :> "5.00") @@ (2000 :> "20.00") @@ (4000 :> "40.00") @@
    (5000 :> "50.00") @@ (7500 :> "75.00") @@ (8000 :> "80.00") @@ (9500 :> "95.00") @@
    (10000 :> "100.00") @@ (12000 :> "120.00")

\* A value written to a decimal column reads back in the column's scale.
StoredDecimal(v) == IF v = Null THEN Null ELSE HundredthsText[DecimalTable[v]]

\* The database takes the values of row p for the columns named: a decimal column
\* takes a numeric literal (or null where the column is nullable), nothing else.
DbRowFits(p) ==
    /\ \A c \in RequiredDecimalColumns \cap DOMAIN p : IsDecimalText(p[c])
    /\ \A c \in OptionalDecimalColumns \cap DOMAIN p : p[c] = Null \/ IsDecimalText(p[c])

\* The row as the table holds it.
DbStoredRow(p) ==
    [c \in DOMAIN p |-> IF c \in DecimalColumns THEN StoredDecimal(p[c]) ELSE p[c]]

RECURSIVE IndexOfId(_, _, _)
\* The position of the row with product_id id among the first n rows, 0 when none.
IndexOfId(t, id, n) ==
    IF n = 0 THEN 0
    ELSE IF t[n].product_id = id THEN n
    ELSE IndexOfId(t, id, n - 1)

TableHas(t, id) == IndexOfId(t, id, Len(t)) # 0

TableGet(t, id) == t[IndexOfId(t, id, Len(t))]

\* The set clause with one column forgotten.
UpsertSetColumnsWithoutPrice ==
    {"date", "title", "category", "rating", "reviews", "availability",
     "competitor_price", "promotion_flag", "estimated_demand", "cost_price",
     "profit_margin", "event", "event_impact", "ad_spend", "market_share"}

\* The columns of onConflictDoUpdate's set clause (each set to excluded.<column>).
UpsertSetColumns ==
    {"date", "title", "category", "price", "rating", "reviews", "availability",
     "competitor_price", "promotion_flag", "estimated_demand", "cost_price",
     "profit_margin", "event", "event_impact", "ad_spend", "market_share"}

\* INSERT ... ON CONFLICT (product_id) DO UPDATE SET ... for one proposed row.
DbUpsertRow(t, p) ==
    IF TableHas(t, p.product_id)
    THEN LET i == IndexOfId(t, p.product_id, Len(t))
             excluded == DbStoredRow(p)
         IN  [t EXCEPT ![i] = [c \in DOMAIN t[i] |->
                                  IF c \in UpsertSetColumns THEN excluded[c] ELSE t[i][c]]]
    ELSE Append(t, DbStoredRow(p))

RECURSIVE DbUpsertRows(_, _)
DbUpsertRows(t, batch) ==
    IF batch = <<>> THEN t
    ELSE DbUpsertRows(DbUpsertRow(t, Head(batch)), Tail(batch))

\* The statement is accepted: every row fits its columns, and no two proposed rows
\* share a product_id (ON CONFLICT DO UPDATE cannot affect a row a second time).
DbUpsertAccepted(batch) ==
    /\ \A i \in 1..Len(batch) : DbRowFits(batch[i])
    /\ \A i, j \in 1..Len(batch) : i # j => batch[i].product_id # batch[j].product_id

\* db.insert(products).values(product): a duplicate product_id violates the primary key.
DbInsertAccepted(t, p) == DbRowFits(p) /\ ~TableHas(t, p.product_id)

DbInsertRow(t, p) == Append(t, DbStoredRow(p))

\* db.update(products).set(updates).where(eq(product_id, id)) is accepted: the values
\* fit their columns, and the row it changes is not given the product_id of another.
DbUpdateAccepted(t, id, updates) ==
    /\ DbRowFits(updates)
    /\ (TableHas(t, id) /\ "product_id" \in DOMAIN updates /\ updates.product_id # id)
          => ~TableHas(t, updates.product_id)

DbUpdateRow(t, id, updates) ==
    IF ~TableHas(t, id) THEN t
    ELSE [t EXCEPT ![IndexOfId(t, id, Len(t))] = Spread(@, DbStoredRow(updates))]

\* The name/brand table: db.insert(products).values(batch), each row given a fresh id
\* and created_at by its column defaults.
V1DbRowFits(p) == \A c \in V1DecimalColumns : IsDecimalText(p[c])

V1DbInsertAccepted(batch) == \A i \in 1..Len(batch) : V1DbRowFits(batch[i])

V1DbStoredRow(p, id, t) ==
    [c \in DOMAIN p \cup {"id", "createdAt"} |->
        IF c = "id" THEN id
        ELSE IF c = "createdAt" THEN Now(t)
        ELSE IF c \in V1DecimalColumns THEN StoredDecimal(p[c])
        ELSE p[c]]

V1DbInsertRows(t, batch, id0, now) ==
    t \o [i \in 1..Len(batch) |-> V1DbStoredRow(batch[i], id0 + i, now)]

-----------------------------------------------------------------------------
(* The store, whichever backend holds it *)

\* The products a full scan returns, in store order.
StoreValues(st) == IF backend \in {"mem", "memV1"} THEN [i \in 1..Len(st) |-> st[i].value] ELSE st

\* getProductCount()
GetProductCount(st) == Len(st)

\* The identifiers getProduct answers for.
StoreIds(st) ==
    IF backend \in {"mem", "memV1"} THEN {st[i].key : i \in 1..Len(st)}
    ELSE IF backend = "drizzle" THEN {st[i].product_id : i \in 1..Len(st)}
    ELSE {st[i].id : i \in 1..Len(st)}

HasProduct(st, id) == id \in StoreIds(st)

\* getProduct(id), for an id that HasProduct.
GetProduct(st, id) ==
    IF backend \in {"mem", "memV1"} THEN MapGet(st, id)
    ELSE IF backend = "drizzle" THEN TableGet(st, id)
    ELSE CHOOSE r \in {st[i] : i \in 1..Len(st)} : r.id = id

-----------------------------------------------------------------------------
(* Reads. A read is a function of the store; where the result is not determined by   *)
(* the store (the row order of a SELECT, Math.random()), the operator gives the set  *)
(* of results the call may return.                                                   *)

\* parseFloat(v) of a stored decimal text, in hundredths; NaN for any other text.
ParseFloat(v) == IF IsDecimalText(v) THEN DecimalTable[v] ELSE NaN

\* a >= b and a <= b on numbers: false as soon as one side is NaN.
Geq(a, b) == a # NaN /\ b # NaN /\ a >= b
Leq(a, b) == a # NaN /\ b # NaN /\ a <= b

\* s.slice(from, to), for 0 <= from.
Slice(s, from, to) ==
    SubSeq(s, from + 1, IF to < Len(s) THEN to ELSE Len(s))

\* The rows of a SELECT without ORDER BY come in an order the database does not
\* promise: the heap order, or (a scan that joins another one under way) the heap
\* order started at a later row and wrapped around.
SqlScan(rows) ==
    {SubSeq(rows, k + 1, Len(rows)) \o SubSeq(rows, 1, k) : k \in 0..Len(rows)}

\* The limits and offsets reads are called with, and the filters of getProducts: a
\* record of the fields supplied (numbers in hundredths).
Limits == 0..MaxLimit
Offsets == 0..MaxOffset
FilterInputs ==
    {<<>>, [category |-> "Tools"], [minPrice |-> 7500], [minPrice |-> 0],
     [maxPrice |-> 7500], [maxPrice |-> 0], [minRating |-> 400],
     [category |-> "Toys", minPrice |-> 4000, maxPrice |-> 10000, minRating |-> 350]}

\* if (filters.x): the field is supplied and truthy (a number other than 0 and NaN, a
\* text other than "").
FilterNumberSet(filters, f) == f \in DOMAIN filters /\ filters[f] # 0 /\ filters[f] # NaN
FilterTextSet(filters, f) == f \in DOMAIN filters /\ filters[f] # ""

\* The filter conditions getProducts builds: category, minPrice and maxPrice in every
\* revision, minRating only in the name/brand revisions.
GetProductsKeeps(p, filters) ==
    /\ FilterTextSet(filters, "category") => p.category = filters.category
    /\ FilterNumberSet(filters, "minPrice") => Geq(ParseFloat(p.price), filters.minPrice)
    /\ FilterNumberSet(filters, "maxPrice") => Leq(ParseFloat(p.price), filters.maxPrice)
    /\ (backend \in {"memV1", "drizzleV1"} /\ FilterNumberSet(filters, "minRating"))
          => Geq(ParseFloat(p.rating), filters.minRating)

\* getProducts(limit, offset, filters): the results the call may return. MemStorage
\* filters Array.from(products.values()) and slices; DrizzleStorage runs
\* SELECT ... WHERE ... LIMIT limit OFFSET offset, without ORDER BY.
DbGetProducts(t, limit, offset, filters) ==
    LET Keep(p) == GetProductsKeeps(p, filters)
    IN  {Slice(SelectSeq(scan, Keep), offset, offset + limit) : scan \in SqlScan(t)}

GetProducts(st, limit, offset, filters) ==
    LET Keep(p) == GetProductsKeeps(p, filters)
    IN  IF backend \in {"mem", "memV1"}
        THEN {Slice(SelectSeq(StoreValues(st), Keep), offset, offset + limit)}
        ELSE DbGetProducts(st, limit, offset, filters)

\* getProductsByCategory(category): the results the call may return.
GetProductsByCategory(st, category) ==
    LET Keep(p) == p.category = category
    IN  IF backend \in {"mem", "memV1"}
        THEN {SelectSeq(StoreValues(st), Keep)}
        ELSE {SelectSeq(scan, Keep) : scan \in SqlScan(st)}

-----------------------------------------------------------------------------
(* Ordering. A sort works on items [row, key] and puts smaller keys first. *)

\* The rows with the key K gives each.
Keyed(rows, K(_)) == [i \in 1..Len(rows) |-> [row |-> rows[i], key |-> K(rows[i])]]

\* The place item i takes in a stable ascending sort.
StableRank(items, i) ==
    1 + Cardinality({j \in 1..Len(items) :
                        \/ items[j].key < items[i].key
                        \/ items[j].key = items[i].key /\ j < i})

\* The rows of the items, stably sorted by key.
SortedByKey(items) ==
    [r \in 1..Len(items) |-> items[CHOOSE i \in 1..Len(items) : StableRank(items, i) = r].row]

\* The rows of the items in every order.
Permuted(items) ==
    {[r \in 1..Len(items) |-> items[f[r]].row] :
        f \in {g \in [1..Len(items) -> 1..Len(items)] :
                  \A a, b \in 1..Len(items) : a # b => g[a] # g[b]}}

\* Array.prototype.sort(compare) with compare(a, b) = key(a) - key(b): a stable sort.
\* When a key is NaN the comparator is not a consistent one and the order of the
\* result is whatever the engine's algorithm leaves.
JsSort(items) ==
    IF \E i \in 1..Len(items) : items[i].key = NaN
    THEN Permuted(items)
    ELSE {SortedByKey(items)}

\* SELECT ... ORDER BY key: rows with equal keys come in an order the database does
\* not promise (that of the scan feeding the sort).
SqlOrderBy(items) == {SortedByKey(scan) : scan \in SqlScan(items)}

\* The key of a NULL under ORDER BY ... DESC: NULLs sort as larger than every value,
\* so they come first.
SqlNullDescKey == -100000000

\* Math.random(), in tenths: two of the values it may return.
MathRandom == {2, 7}

\* { ...p, salesGrowth, revenueGrowth, competitivePosition }
WithMetrics(p, salesGrowth, revenueGrowth, competitivePosition) ==
    Spread(p, [salesGrowth |-> salesGrowth, revenueGrowth |-> revenueGrowth,
               competitivePosition |-> competitivePosition])

\* rows.map(p => ({ ...p, salesGrowth: 0, revenueGrowth: 0, competitivePosition }))
MapFixedMetrics(rows, competitivePosition) ==
    [i \in 1..Len(rows) |-> WithMetrics(rows[i], 0, 0, competitivePosition)]

\* rows.map(p => ({ ...p, salesGrowth: sign * (Math.random() * a + b),
\*                  revenueGrowth: sign * (Math.random() * c + d), competitivePosition })):
\* every result the draws allow, the growths in tenths.
MapRandomMetrics(rows, sign, a, b, c, d, competitivePosition) ==
    {[i \in 1..Len(rows) |->
         WithMetrics(rows[i], sign * (draw[i][1] * a + 10 * b),
                     sign * (draw[i][2] * c + 10 * d), competitivePosition)] :
        draw \in [1..Len(rows) -> MathRandom \X MathRandom]}

Trending(p) == p.trending

\* DrizzleStorage.getTrendingProducts(limit) of part_000, on the table t.
DbGetTrendingProducts(t, limit) ==
    LET DescEventImpact(p) ==
            IF p.event_impact = Null THEN SqlNullDescKey ELSE 0 - ParseFloat(p.event_impact)
    IN  {MapFixedMetrics(Slice(sorted, 0, limit), "leading") :
            sorted \in SqlOrderBy(Keyed(t, DescEventImpact))}

\* getTrendingProducts(limit): the results the call may return.
GetTrendingProducts(st, limit) ==
    LET EventImpact(p) ==
            IF p.event_impact \in {Null, ""} THEN 0 ELSE ParseFloat(p.event_impact)
        Comparand(p) == IF EventImpact(p) = NaN THEN NaN ELSE 0 - EventImpact(p)
        DescSalesVolume(p) == 0 - p.salesVolume
    IN  IF backend = "mem"
        THEN {MapFixedMetrics(Slice(sorted, 0, limit), "leading") :
                 sorted \in JsSort(Keyed(StoreValues(st), Comparand))}
        ELSE IF backend = "drizzle"
        THEN DbGetTrendingProducts(st, limit)
        ELSE IF backend = "memV1"
        THEN UNION {MapRandomMetrics(Slice(sorted, 0, limit), 1, 50, 10, 40, 5, "leading") :
                 sorted \in JsSort(Keyed(SelectSeq(StoreValues(st), Trending),
                                         DescSalesVolume))}
        ELSE {MapFixedMetrics(Slice(sorted, 0, limit), "leading") :
                 sorted \in SqlOrderBy(Keyed(SelectSeq(st, Trending), DescSalesVolume))}

\* DrizzleStorage.getTopProfitProducts(limit) of part_000, on the table t.
DbGetTopProfitProducts(t, limit) ==
    LET DescMargin(p) ==
            IF ParseFloat(p.profit_margin) = NaN THEN NaN ELSE 0 - ParseFloat(p.profit_margin)
    IN  {MapFixedMetrics(Slice(sorted, 0, limit), "profitable") :
            sorted \in SqlOrderBy(Keyed(t, DescMargin))}

\* getTopProfitProducts(limit): the results the call may return.
GetTopProfitProducts(st, limit) ==
    LET Margin(p) ==
            ParseFloat(IF backend \in {"mem", "drizzle"} THEN p.profit_margin
                       ELSE p.profitMargin)
        DescMargin(p) == IF Margin(p) = NaN THEN NaN ELSE 0 - Margin(p)
    IN  IF backend = "memV1"
        THEN UNION {MapRandomMetrics(Slice(sorted, 0, limit), 1, 30, 5, 25, 3, "profitable") :
                 sorted \in JsSort(Keyed(StoreValues(st), DescMargin))}
        ELSE IF backend = "mem"
        THEN {MapFixedMetrics(Slice(sorted, 0, limit), "profitable") :
                 sorted \in JsSort(Keyed(StoreValues(st), DescMargin))}
        ELSE IF backend = "drizzle"
        THEN DbGetTopProfitProducts(st, limit)
        ELSE {MapFixedMetrics(Slice(sorted, 0, limit), "profitable") :
                 sorted \in SqlOrderBy(Keyed(st, DescMargin))}

\* DrizzleStorage.getUnderperformingProducts(limit) of part_000, on the table t.
DbGetUnderperformingProducts(t, limit) ==
    LET Demand(p) == p.estimated_demand
    IN  {MapFixedMetrics(Slice(sorted, 0, limit), "needs attention") :
            sorted \in SqlOrderBy(Keyed(t, Demand))}

\* getUnderperformingProducts(limit): the results the call may return.
GetUnderperformingProducts(st, limit) ==
    LET Volume(p) ==
            IF backend \in {"mem", "drizzle"} THEN p.estimated_demand ELSE p.salesVolume
    IN  IF backend = "memV1"
        THEN UNION {MapRandomMetrics(Slice(sorted, 0, limit), -1, 30, 5, 25, 3,
                                     "needs attention") :
                 sorted \in JsSort(Keyed(StoreValues(st), Volume))}
        ELSE IF backend = "mem"
        THEN {MapFixedMetrics(Slice(sorted, 0, limit), "needs attention") :
                 sorted \in JsSort(Keyed(StoreValues(st), Volume))}
        ELSE IF backend = "drizzle"
        THEN DbGetUnderperformingProducts(st, limit)
        ELSE {MapFixedMetrics(Slice(sorted, 0, limit), "needs attention") :
                 sorted \in SqlOrderBy(Keyed(st, Volume))}

RECURSIVE SumOf(_)
\* numbers.reduce((sum, n) => sum + n, 0): NaN as soon as one of them is.
SumOf(numbers) ==
    IF numbers = <<>> THEN 0
    ELSE IF Head(numbers) = NaN \/ SumOf(Tail(numbers)) = NaN THEN NaN
    ELSE Head(numbers) + SumOf(Tail(numbers))

RECURSIVE FirstOccurrences(_)
\* Array.from(new Set(values)): the distinct values, each at its first occurrence.
FirstOccurrences(values) ==
    IF values = <<>> THEN <<>>
    ELSE LET front == FirstOccurrences(SubSeq(values, 1, Len(values) - 1))
             last == values[Len(values)]
         IN  IF \E i \in 1..Len(front) : front[i] = last THEN front ELSE Append(front, last)

\* The quotient sum / count, kept exact (NaN when the sum is).
Quotient(sum, count) == IF sum = NaN THEN [num |-> NaN, den |-> 1] ELSE [num |-> sum, den |-> count]

\* The entry of one category: sales the sum of salesVolume, revenue the sum of
\* salesVolume * price (hundredths), profitMargin the mean margin.
CategoryEntry(rows, category, growth) ==
    LET InCategory(p) == p.category = category
        members == SelectSeq(rows, InCategory)
    IN  [category     |-> category,
         sales        |-> SumOf([i \in 1..Len(members) |-> members[i].salesVolume]),
         revenue      |-> SumOf([i \in 1..Len(members) |->
                                   IF ParseFloat(members[i].price) = NaN THEN NaN
                                   ELSE members[i].salesVolume * ParseFloat(members[i].price)]),
         profitMargin |-> Quotient(SumOf([i \in 1..Len(members) |->
                                            ParseFloat(members[i].profitMargin)]),
                                   Len(members)),
         growth       |-> growth]

\* getCategoryPerformance(): the results the call may return. Both classes of part_000
\* return []. MemStorage of part_001 maps the distinct categories, growth being
\* Math.random() * 40 + 5 (in tenths); DrizzleStorage of index.ts runs a GROUP BY, whose
\* groups come in an order the database does not promise, growth 0.
GetCategoryPerformance(st) ==
    IF backend \in {"mem", "drizzle"} THEN {<<>>}
    ELSE LET rows == StoreValues(st)
             categories == FirstOccurrences([i \in 1..Len(rows) |-> rows[i].category])
         IN  IF backend = "memV1"
             THEN {[i \in 1..Len(categories) |->
                       CategoryEntry(rows, categories[i], draw[i] * 40 + 50)] :
                      draw \in [1..Len(categories) -> MathRandom]}
             ELSE SqlScan([i \in 1..Len(categories) |->
                              CategoryEntry(rows, categories[i], 0)])

\* getDashboardMetrics(): the results the call may return, as far as they depend on
\* the products. Both classes of part_000 return {}. MemStorage of part_001 divides
\* the sums by products.length (0 / 0 is NaN) and reports fixed growths (tenths);
\* DrizzleStorage of index.ts reads count(*) and avg(), "|| 0" turning the NaN of an
\* empty table into 0, and reports growths 0.
GetDashboardMetrics(st) ==
    LET rows == StoreValues(st)
        Mean(F(_)) ==
            IF rows = <<>>
            THEN Quotient(IF backend = "memV1" THEN NaN ELSE 0, 1)
            ELSE Quotient(SumOf([i \in 1..Len(rows) |-> ParseFloat(F(rows[i]))]), Len(rows))
        ProfitMargin(p) == p.profitMargin
        Rating(p) == p.rating
        fixed == backend = "memV1"
    IN  IF backend \in {"mem", "drizzle"} THEN {<<>>}
        ELSE {[revenueGrowth   |-> IF fixed THEN 123 ELSE 0,
               totalProducts   |-> Len(rows),
               productGrowth   |-> IF fixed THEN 87 ELSE 0,
               avgProfitMargin |-> Mean(ProfitMargin),
               marginGrowth    |-> IF fixed THEN 21 ELSE 0,
               avgRating       |-> Mean(Rating),
               ratingGrowth    |-> IF fixed THEN 3 ELSE 0]}

-----------------------------------------------------------------------------
(* searchProducts. The match works on the characters of the texts. *)

\* The characters of the texts the model searches in and for.
Characters ==
    ("Widget" :> <<"W", "i", "d", "g", "e", "t">>) @@
    ("Gadget" :> <<"G", "a", "d", "g", "e", "t">>) @@
    ("Gizmo" :> <<"G", "i", "z", "m", "o">>) @@
    ("Tools" :> <<"T", "o", "o", "l", "s">>) @@ ("Toys" :> <<"T", "o", "y", "s">>) @@
    ("Acme" :> <<"A", "c", "m", "e">>) @@ ("undefined" :> <<"u", "n", "d", "e", "f">>) @@
    ("wid" :> <<"w", "i", "d">>) @@ ("WID" :> <<"W", "I", "D">>) @@
    ("get" :> <<"g", "e", "t">>) @@ ("G_" :> <<"G", "_">>)

\* The lower-case letter of each upper-case letter the texts hold.
LowerLetter ==
    ("W" :> "w") @@ ("G" :> "g") @@ ("T" :> "t") @@ ("A" :> "a") @@ ("I" :> "i") @@
    ("D" :> "d")

\* s.toLowerCase(), character by character.
LowerCased(chars) ==
    [i \in 1..Len(chars) |->
        IF chars[i] \in DOMAIN LowerLetter THEN LowerLetter[chars[i]] ELSE chars[i]]

\* text.includes(query)
Includes(text, query) ==
    \E k \in 0..(Len(text) - Len(query)) :
        \A i \in 1..Len(query) : text[k + i] = query[i]

RECURSIVE Like(_, _)
\* text LIKE pattern: % stands for any run of characters, _ for any one character.
Like(text, pattern) ==
    IF pattern = <<>> THEN text = <<>>
    ELSE IF Head(pattern) = "%"
    THEN \E k \in 0..Len(text) : Like(SubSeq(text, k + 1, Len(text)), Tail(pattern))
    ELSE /\ text # <<>>
         /\ Head(pattern) = "_" \/ Head(pattern) = Head(text)
         /\ Like(Tail(text), Tail(pattern))

\* ilike(column, `%${query}%`): LIKE with the case of both sides ignored.
Ilike(text, query) ==
    Like(LowerCased(Characters[text]), <<"%">> \o LowerCased(Characters[query]) \o <<"%">>)

\* The texts searchProducts is called with.
Queries == {"wid", "WID", "get", "G_"}

\* searchProducts(query): the results the call may return. MemStorage of part_000
\* lower-cases the title and looks for the query as given; MemStorage of part_001
\* lower-cases the query as well and looks in name, category and brand; both
\* DrizzleStorage classes select with ILIKE on the title (name), without ORDER BY.
SearchProducts(st, query) ==
    LET MemKeeps(p) == Includes(LowerCased(Characters[p.title]), Characters[query])
        lowerQuery == LowerCased(Characters[query])
        V1MemKeeps(p) ==
            \/ Includes(LowerCased(Characters[p.name]), lowerQuery)
            \/ Includes(LowerCased(Characters[p.category]), lowerQuery)
            \/ Includes(LowerCased(Characters[p.brand]), lowerQuery)
        DbKeeps(p) == Ilike(p.title, query)
        V1DbKeeps(p) == Ilike(p.name, query)
    IN  IF backend = "mem" THEN {SelectSeq(StoreValues(st), MemKeeps)}
        ELSE IF backend = "memV1" THEN {SelectSeq(StoreValues(st), V1MemKeeps)}
        ELSE IF backend = "drizzle" THEN {SelectSeq(scan, DbKeeps) : scan \in SqlScan(st)}
        ELSE {SelectSeq(scan, V1DbKeeps) : scan \in SqlScan(st)}

-----------------------------------------------------------------------------
(* What createProduct and updateProduct hand back to their caller *)

\* No createProduct / updateProduct call is the latest event.
NoReturn == [op |-> "none", status |-> "none", id |-> "", updates |-> <<>>, out |-> <<>>]

\* The call op(id, updates) returned the product out, returned undefined, or threw.
Returned(op, id, updates, out) ==
    [op |-> op, status |-> "returned", id |-> id, updates |-> updates, out |-> out]
ReturnedUndefined(op, id, updates) ==
    [op |-> op, status |-> "undefined", id |-> id, updates |-> updates, out |-> <<>>]
Threw(op, id, updates) ==
    [op |-> op, status |-> "threw", id |-> id, updates |-> updates, out |-> <<>>]

-----------------------------------------------------------------------------
(* importProductsFromCsv *)

\* The "data" handler: the batch after row is handled (try { parse; push } catch { warn }).
OnDataHandler(batch, row, t) ==
    IF backend = "drizzleV1"
    THEN IF V1RowThrows(row) THEN batch
         ELSE IF V1InsertProductSchemaAccepts(V1RowToInsertProduct(row, t))
              THEN Append(batch, V1RowToInsertProduct(row, t))
              ELSE batch
    ELSE IF InsertProductSchemaAccepts(RowToInsertProduct(row))
         THEN Append(batch, RowToInsertProduct(row))
         ELSE batch

\* Resolving with the number of distinct products instead.
ResolvedCountDistinct(batch) == Cardinality({batch[i] : i \in 1..Len(batch)})

\* What the "end" handler resolves the promise with.
ResolvedCount(batch) == Len(batch)

\* The rows a CSV of the backend's product shape may hold.
CsvRows == IF backend = "drizzleV1" THEN V1Rows ELSE Rows

\* The source is the same bytes as the previous call's, which resolved.
Fresh == [again |-> FALSE, rows |-> <<>>]
Again(rows) == [again |-> TRUE, rows |-> rows]

Pending == [state |-> "pending", value |-> 0]
Resolved(n) == [state |-> "resolved", value |-> n]
Rejected == [state |-> "rejected", value |-> 0]

\* No importProductsFromCsv call has an event still to come.
Quiescent == streamState # "flowing" /\ dbWrite # "pending"

\* History kept for stating properties (no code reads it):
\*   before      the store just before the batch write of the call that resolved last;
\*   fresh       the store has not been written since that batch write;
\*   clean       no createProduct / updateProduct ran since the previous call resolved;
\*   succession  the resolved call re-read the previous call's rows, and nothing wrote
\*               to the store between the two batch writes.
NoHistory == [before |-> <<>>, fresh |-> FALSE, clean |-> FALSE, succession |-> FALSE]

Committed(before) ==
    [before |-> before, fresh |-> TRUE, clean |-> TRUE,
     succession |-> source.again /\ hist.clean]

\* The second store before any call: an empty table, no promise, nothing returned.
NoTwin == [products |-> <<>>, promise |-> [state |-> "none", value |-> 0], ret |-> NoReturn]

\* No second call has been made; before is the store before either call.
NoSecondCall(before) ==
    [before |-> before, stream |-> <<>>, streamState |-> "none",
     productsToInsert |-> <<>>, promise |-> [state |-> "none", value |-> 0]]

\* data/products.csv: absent, or a file of rows.
NoFile == [exists |-> FALSE, rows |-> <<>>]
File(rows) == [exists |-> TRUE, rows |-> rows]

\* seed() has not been called; file is what data/products.csv holds. runs counts the
\* calls that ended, after is the store the first of them left, threw whether one of
\* them ended by throwing.
NoSeed(file) ==
    [file |-> file, state |-> "idle", productCount |-> 0, runs |-> 0, after |-> <<>>,
     threw |-> FALSE]

\* A signup request that has not arrived.
NoRequest == [state |-> "none", email |-> "", status |-> 0, message |-> ""]

\* The storage object after construction, and no call made.
Constructed ==
    /\ backend \in {"mem", "drizzle", "drizzleV1", "memV1"}
    /\ products = <<>>
    /\ nextId = 0
    /\ source = Fresh
    /\ stream = <<>>
    /\ streamState = "none"
    /\ productsToInsert = <<>>
    /\ promise = [state |-> "none", value |-> 0]
    /\ dbWrite = "none"
    /\ calls = 0
    /\ directCalls = 0
    /\ ret = NoReturn
    /\ hist = NoHistory
    /\ twin = NoTwin
    /\ second = NoSecondCall(<<>>)
    /\ users = <<>>
    /\ requests = [r \in 1..MaxRequests |-> NoRequest]

Init == Constructed /\ seed = NoSeed(NoFile)

\* importProductsFromCsv(stream) is called: the promise is created, the batch is empty,
\* the handlers are registered on stream.pipe(csv()). The stream is a new one, or (again)
\* holds the very rows of the previous call, which resolved.
ImportProductsFromCsv(again) ==
    /\ backend # "memV1"
    /\ calls < MaxCalls
    /\ Quiescent
    /\ again => promise.state = "resolved"
    /\ calls' = calls + 1
    /\ source' = IF again THEN Again(stream) ELSE Fresh
    /\ stream' = <<>>
    /\ streamState' = "flowing"
    /\ productsToInsert' = <<>>
    /\ promise' = Pending
    /\ dbWrite' = "none"
    /\ hist' = [NoHistory EXCEPT !.clean = again /\ hist.clean]
    /\ ret' = NoReturn
    /\ UNCHANGED <<aside, backend, products, nextId, directCalls>>

\* The source has a further row for csv() to emit.
HasNextRow(row) ==
    IF source.again
    THEN Len(stream) < Len(source.rows) /\ row = source.rows[Len(stream) + 1]
    ELSE Len(stream) < MaxRows

\* The source is at its end.
AtEnd == source.again => Len(stream) = Len(source.rows)

\* A "data" handler that creates the product of the row at once.
OnDataCreatingProduct(row) ==
    /\ streamState = "flowing"
    /\ HasNextRow(row)
    /\ stream' = Append(stream, row)
    /\ productsToInsert' = OnDataHandler(productsToInsert, row, calls)
    /\ products' = IF backend = "mem"
                   THEN MemForEachCreate(products, OnDataHandler(<<>>, row, calls))
                   ELSE products
    /\ ret' = NoReturn
    /\ UNCHANGED <<aside, backend, nextId, source, streamState, promise, dbWrite,
                   calls, directCalls, hist>>

\* csv() emits "data" for the next row.
OnData(row) ==
    /\ streamState = "flowing"
    /\ HasNextRow(row)
    /\ stream' = Append(stream, row)
    /\ productsToInsert' = OnDataHandler(productsToInsert, row, calls)
    /\ ret' = NoReturn
    /\ UNCHANGED <<aside, backend, products, nextId, source, streamState, promise, dbWrite,
                   calls, directCalls, hist>>

\* An "end" handler whose first createProduct yields to the event loop: the store holds
\* the first product of the batch when other calls run.
OnEndCreatingFirst ==
    /\ streamState = "flowing"
    /\ AtEnd
    /\ streamState' = "ended"
    /\ products' = IF productsToInsert = <<>> THEN products
                   ELSE MemCreateProduct(products, Head(productsToInsert))
    /\ promise' = Resolved(ResolvedCount(productsToInsert))
    /\ hist' = Committed(products)
    /\ ret' = NoReturn
    /\ UNCHANGED <<aside, backend, nextId, source, stream, productsToInsert, dbWrite,
                   calls, directCalls>>

\* csv() emits "end". MemStorage creates every product of the batch and resolves;
\* DrizzleStorage issues the batch insert and awaits it (or resolves at once with 0).
OnEnd ==
    /\ streamState = "flowing"
    /\ AtEnd
    /\ streamState' = "ended"
    /\ IF backend = "mem"
       THEN /\ products' = MemForEachCreate(products, productsToInsert)
            /\ promise' = Resolved(ResolvedCount(productsToInsert))
            /\ hist' = Committed(products)
            /\ UNCHANGED dbWrite
       ELSE IF productsToInsert # <<>>
       THEN /\ dbWrite' = "pending"
            /\ UNCHANGED <<products, promise, hist>>
       ELSE /\ promise' = Resolved(ResolvedCount(productsToInsert))
            /\ hist' = Committed(products)
            /\ UNCHANGED <<products, dbWrite>>
    /\ ret' = NoReturn
    /\ UNCHANGED <<aside, backend, nextId, source, stream, productsToInsert, calls, directCalls>>

\* The awaited batch insert succeeds; the "end" handler goes on to resolve.
DbWriteSucceeds ==
    /\ dbWrite = "pending"
    /\ IF backend = "drizzle"
       THEN /\ DbUpsertAccepted(productsToInsert)
            /\ products' = DbUpsertRows(products, productsToInsert)
            /\ UNCHANGED nextId
       ELSE /\ V1DbInsertAccepted(productsToInsert)
            /\ products' = V1DbInsertRows(products, productsToInsert, nextId, calls)
            /\ nextId' = nextId + Len(productsToInsert)
    /\ dbWrite' = "ok"
    /\ promise' = Resolved(ResolvedCount(productsToInsert))
    /\ hist' = Committed(products)
    /\ ret' = NoReturn
    /\ UNCHANGED <<aside, backend, source, stream, streamState, productsToInsert, calls,
                   directCalls>>

\* A batch written row by row outside a transaction: the first row is in when it fails.
DbWriteFailsAfterFirstRow ==
    /\ dbWrite = "pending"
    /\ dbWrite' = "failed"
    /\ products' = Append(products, Head(productsToInsert))
    /\ ret' = NoReturn
    /\ UNCHANGED <<aside, backend, nextId, source, stream, streamState,
                   productsToInsert, promise, calls, directCalls, hist>>

\* The awaited batch insert fails (the database is unreachable or rejects the
\* statement): the await throws inside the async "end" handler, whose promise nobody
\* holds; neither resolve nor reject is called.
DbWriteFails ==
    /\ dbWrite = "pending"
    /\ dbWrite' = "failed"
    /\ ret' = NoReturn
    /\ UNCHANGED <<aside, backend, products, nextId, source, stream, streamState,
                   productsToInsert, promise, calls, directCalls, hist>>

\* The csv() transform emits "error": the registered handler rejects the promise.
OnParserError ==
    /\ streamState = "flowing"
    /\ streamState' = "parserError"
    /\ promise' = Rejected
    /\ ret' = NoReturn
    /\ UNCHANGED <<aside, backend, products, nextId, source, stream, productsToInsert, dbWrite,
                   calls, directCalls, hist>>

\* The source Readable emits "error" (an I/O failure). pipe() does not forward it to
\* csv(), on which the handlers are registered: the source is unpiped, csv() emits
\* neither "end" nor "error", and no handler of the call runs again.
OnSourceError ==
    /\ streamState = "flowing"
    /\ streamState' = "errored"
    /\ ret' = NoReturn
    /\ UNCHANGED <<aside, backend, products, nextId, source, stream, productsToInsert, promise,
                   dbWrite, calls, directCalls, hist>>

-----------------------------------------------------------------------------
(* createProduct and updateProduct, called directly *)

ParsedA1 == RowToInsertProduct(RowA1)
ParsedA2 == RowToInsertProduct(RowA2)
V1ParsedOk == V1RowToInsertProduct(V1RowOk, 0)

\* The products createProduct is called with.
CreateInputs ==
    IF backend = "memV1"
    THEN {V1ParsedOk,
          [V1ParsedOk EXCEPT !.name = "Gadget", !.trending = FALSE, !.salesVolume = 9]}
    ELSE {ParsedA2, [ParsedA1 EXCEPT !.price = "75", !.event = Null]}

\* The <<id, updates>> updateProduct is called with.
UpdateInputs ==
    IF backend = "memV1"
    THEN {<<1, [price |-> "75"]>>}
    ELSE {<<id, u>> : id \in {"A1", "A2"},
                      u \in {[price |-> "75"], [product_id |-> "A2", title |-> "Gizmo"]}}

\* createProduct(p). MemStorage sets the map entry of p.product_id (part_001: of a fresh
\* id) and returns the product; DrizzleStorage inserts and returns the row, and the
\* insert throws when the database refuses it.
CreateProduct(p) ==
    /\ backend \in {"mem", "drizzle", "memV1"}
    /\ directCalls < MaxDirectCalls
    /\ directCalls' = directCalls + 1
    /\ IF backend = "mem"
       THEN /\ products' = MemCreateProduct(products, p)
            /\ ret' = Returned("createProduct", p.product_id, p, p)
            /\ UNCHANGED nextId
       ELSE IF backend = "memV1"
       THEN /\ products' = V1MemCreateProduct(products, p, nextId + 1, Now(calls))
            /\ ret' = Returned("createProduct", nextId + 1, p,
                               V1MemProduct(p, nextId + 1, Now(calls)))
            /\ nextId' = nextId + 1
       ELSE IF DbInsertAccepted(products, p)
       THEN /\ products' = DbInsertRow(products, p)
            /\ ret' = Returned("createProduct", p.product_id, p, DbStoredRow(p))
            /\ UNCHANGED nextId
       ELSE /\ ret' = Threw("createProduct", p.product_id, p)
            /\ UNCHANGED <<products, nextId>>
    /\ hist' = NoHistory
    /\ UNCHANGED <<aside, backend, source, stream, streamState, productsToInsert,
                   promise, dbWrite, calls>>

\* updateProduct(id, updates). MemStorage returns undefined for a key it does not
\* hold, else stores and returns { ...product, ...updates } under the same key;
\* DrizzleStorage runs the UPDATE and returns the row it changed (undefined when there
\* is none), and the UPDATE throws when the database refuses it.
UpdateProduct(id, updates) ==
    /\ backend \in {"mem", "drizzle", "memV1"}
    /\ directCalls < MaxDirectCalls
    /\ directCalls' = directCalls + 1
    /\ IF backend \in {"mem", "memV1"}
       THEN /\ products' = MemUpdateProduct(products, id, updates)
            /\ ret' = IF MapHas(products, id)
                      THEN Returned("updateProduct", id, updates,
                                    Spread(MapGet(products, id), updates))
                      ELSE ReturnedUndefined("updateProduct", id, updates)
       ELSE IF DbUpdateAccepted(products, id, updates)
       THEN /\ products' = DbUpdateRow(products, id, updates)
            /\ ret' = IF TableHas(products, id)
                      THEN Returned("updateProduct", id, updates,
                                    DbUpdateRow(products, id, updates)
                                        [IndexOfId(products, id, Len(products))])
                      ELSE ReturnedUndefined("updateProduct", id, updates)
       ELSE /\ ret' = Threw("updateProduct", id, updates)
            /\ UNCHANGED products
    /\ hist' = NoHistory
    /\ UNCHANGED <<aside, backend, nextId, source, stream, streamState, productsToInsert,
                   promise, dbWrite, calls>>

Next ==
    \/ \E again \in BOOLEAN : ImportProductsFromCsv(again)
    \/ \E row \in CsvRows : OnData(row)
    \/ OnEnd
    \/ DbWriteSucceeds
    \/ DbWriteFails
    \/ OnParserError
    \/ OnSourceError
    \/ \E p \in CreateInputs : CreateProduct(p)
    \/ \E a \in UpdateInputs : UpdateProduct(a[1], a[2])

Spec == Init /\ [][Next]_vars

-----------------------------------------------------------------------------
(* The reads of MemStorage as calls among the others. A read runs to its end in one *)
(* turn of the event loop: it copies the values of the map into an array of its own  *)
(* (Array.from), filters or sorts that array, and returns.                           *)

\* What the read leaves alone: everything but what it returns.
ReadFrame ==
    UNCHANGED <<aside, backend, products, nextId, source, stream, streamState,
                productsToInsert, promise, dbWrite, calls, directCalls, hist>>

\* The identifier getProduct is called with.
ReadIds == IF backend = "memV1" THEN {1} ELSE {"A1"}

GetProductRead(id) ==
    /\ ret' = IF MapHas(products, id)
              THEN Returned("getProduct", id, <<>>, MapGet(products, id))
              ELSE ReturnedUndefined("getProduct", id, <<>>)
    /\ ReadFrame

GetProductsRead(limit, offset, filters) ==
    /\ \E out \in GetProducts(products, limit, offset, filters) :
           ret' = Returned("getProducts", "", [limit |-> limit, offset |-> offset], out)
    /\ ReadFrame

GetProductsByCategoryRead(category) ==
    /\ \E out \in GetProductsByCategory(products, category) :
           ret' = Returned("getProductsByCategory", category, <<>>, out)
    /\ ReadFrame

SearchProductsRead(query) ==
    /\ \E out \in SearchProducts(products, query) :
           ret' = Returned("searchProducts", query, <<>>, out)
    /\ ReadFrame

GetProductCountRead ==
    /\ ret' = Returned("getProductCount", "", <<>>, GetProductCount(products))
    /\ ReadFrame

\* A ranking that sorts the array the store itself is kept in.
GetTrendingProductsSortingStore(limit) ==
    /\ \E out \in GetTrendingProducts(products, limit) :
           /\ ret' = Returned("getTrendingProducts", "", [limit |-> limit], out)
           /\ \E sorted \in GetTrendingProducts(products, Len(products)) :
                  products' = [i \in 1..Len(sorted) |->
                                  [key |-> IF backend = "mem" THEN sorted[i].product_id
                                           ELSE sorted[i].id,
                                   value |-> sorted[i]]]
    /\ UNCHANGED <<aside, backend, nextId, source, stream, streamState,
                   productsToInsert, promise, dbWrite, calls, directCalls, hist>>

GetTrendingProductsRead(limit) ==
    /\ \E out \in GetTrendingProducts(products, limit) :
           ret' = Returned("getTrendingProducts", "", [limit |-> limit], out)
    /\ ReadFrame

GetTopProfitProductsRead(limit) ==
    /\ \E out \in GetTopProfitProducts(products, limit) :
           ret' = Returned("getTopProfitProducts", "", [limit |-> limit], out)
    /\ ReadFrame

GetUnderperformingProductsRead(limit) ==
    /\ \E out \in GetUnderperformingProducts(products, limit) :
           ret' = Returned("getUnderperformingProducts", "", [limit |-> limit], out)
    /\ ReadFrame

ReadInit == Init /\ backend \in {"mem", "memV1"}

\* The calls that write (streams that do not fail), and the reads among them.
ReadNext ==
    \/ ImportProductsFromCsv(FALSE)
    \/ \E row \in CsvRows : OnData(row)
    \/ OnEnd
    \/ \E p \in CreateInputs : CreateProduct(p)
    \/ \E a \in UpdateInputs : UpdateProduct(a[1], a[2])
    \/ \E id \in ReadIds : GetProductRead(id)
    \/ GetProductsRead(MaxLimit, MaxOffset, [category |-> "Toys"])
    \/ GetProductsByCategoryRead("Tools")
    \/ SearchProductsRead("get")
    \/ GetProductCountRead
    \/ GetTrendingProductsRead(MaxLimit)
    \/ GetTopProfitProductsRead(MaxLimit)
    \/ GetUnderperformingProductsRead(MaxLimit)

ReadSpec == ReadInit /\ [][ReadNext]_vars

-----------------------------------------------------------------------------
(* Two importProductsFromCsv calls on one MemStorage at a time. Each call has its    *)
(* own promise, its own productsToInsert and its own handlers (they are created in  *)
(* the call); the events of the two streams come in any order.                      *)

FirstImportProductsFromCsv == calls = 0 /\ ImportProductsFromCsv(FALSE)

SecondFrame ==
    UNCHANGED <<twin, seed, users, requests, backend, nextId, source, stream, streamState, productsToInsert,
                promise, dbWrite, calls, directCalls, ret, hist>>

SecondImportProductsFromCsv ==
    /\ second.streamState = "none"
    /\ second' = [second EXCEPT !.streamState = "flowing", !.promise = Pending]
    /\ UNCHANGED products
    /\ SecondFrame

\* A "data" handler that pushes onto the array of the other call.
SecondOnDataSharingBatch(row) ==
    /\ second.streamState = "flowing"
    /\ Len(second.stream) < MaxRows
    /\ second' = [second EXCEPT !.stream = Append(@, row)]
    /\ productsToInsert' = OnDataHandler(productsToInsert, row, calls)
    /\ UNCHANGED <<products, twin, seed, users, requests, backend, nextId, source,
                   stream, streamState, promise, dbWrite, calls, directCalls, ret, hist>>

SecondOnData(row) ==
    /\ second.streamState = "flowing"
    /\ Len(second.stream) < MaxRows
    /\ second' = [second EXCEPT
                      !.stream = Append(@, row),
                      !.productsToInsert = OnDataHandler(@, row, calls)]
    /\ UNCHANGED products
    /\ SecondFrame

SecondOnEnd ==
    /\ second.streamState = "flowing"
    /\ second' = [second EXCEPT
                      !.streamState = "ended",
                      !.promise = Resolved(ResolvedCount(second.productsToInsert))]
    /\ products' = MemForEachCreate(products, second.productsToInsert)
    /\ SecondFrame

\* A MemStorage that holds nothing when the calls are made.
OverlapInit ==
    /\ Init
    /\ backend = "mem"

OverlapNext ==
    \/ FirstImportProductsFromCsv
    \/ \E row \in Rows : OnData(row)
    \/ OnEnd
    \/ SecondImportProductsFromCsv
    \/ \E row \in Rows : SecondOnData(row)
    \/ SecondOnEnd

OverlapSpec == OverlapInit /\ [][OverlapNext]_vars

-----------------------------------------------------------------------------
(* seed() of the two classes of part_000, and the start-up block of index.ts, which  *)
(* is the same code over the storage of index.ts. The calls are made in succession: *)
(* the next one when the one before has returned.                                   *)

\* The files data/products.csv may be.
SeedFiles ==
    {NoFile} \cup {File(rows) : rows \in UNION {[1..n -> CsvRows] : n \in 0..MaxRows}}

SeedFrame ==
    UNCHANGED <<twin, second, users, requests, backend, products, nextId, source, stream,
                streamState, productsToInsert, promise, dbWrite, calls, directCalls,
                ret, hist>>

\* The call returns: the first call's store is kept for comparison.
Returns ==
    [seed EXCEPT !.state = "idle", !.runs = @ + 1,
                 !.after = IF seed.runs = 0 THEN products ELSE @]

\* A seed() that takes the store for empty without counting.
SeedCountsNothing ==
    /\ seed.state = "idle"
    /\ seed.runs < MaxSeeds
    /\ seed' = [seed EXCEPT !.state = "counted", !.productCount = 0]
    /\ SeedFrame

\* const productCount = await this.getProductCount()
SeedCounts ==
    /\ seed.state = "idle"
    /\ seed.runs < MaxSeeds
    /\ seed' = [seed EXCEPT !.state = "counted",
                            !.productCount = GetProductCount(products)]
    /\ SeedFrame

\* productCount is not 0, or data/products.csv does not exist: the call logs and returns.
SeedSkips ==
    /\ seed.state = "counted"
    /\ seed.productCount # 0 \/ ~seed.file.exists
    /\ seed' = Returns
    /\ SeedFrame

\* productCount === 0 and the file exists: importProductsFromCsv(createReadStream(csvPath)).
SeedImports ==
    /\ seed.state = "counted"
    /\ seed.productCount = 0 /\ seed.file.exists
    /\ calls < MaxCalls
    /\ seed' = [seed EXCEPT !.state = "importing"]
    /\ calls' = calls + 1
    /\ source' = Again(seed.file.rows)
    /\ stream' = <<>>
    /\ streamState' = "flowing"
    /\ productsToInsert' = <<>>
    /\ promise' = Pending
    /\ dbWrite' = "none"
    /\ hist' = NoHistory
    /\ ret' = NoReturn
    /\ UNCHANGED <<twin, second, users, requests, backend, products, nextId, directCalls>>

\* The awaited importProductsFromCsv has resolved: the call logs the count and returns.
SeedReturns ==
    /\ seed.state = "importing"
    /\ promise.state = "resolved"
    /\ seed' = Returns
    /\ SeedFrame

\* The awaited importProductsFromCsv has rejected: await throws, and seed() has no
\* try around it.
SeedThrows ==
    /\ seed.state = "importing"
    /\ promise.state = "rejected"
    /\ seed' = [Returns EXCEPT !.threw = TRUE]
    /\ SeedFrame

\* A product stored before the first seed().
CreateProductBeforeSeed(p) == seed.state = "idle" /\ seed.runs = 0 /\ CreateProduct(p)

SeedInit ==
    /\ Constructed
    /\ backend \in {"mem", "drizzle", "drizzleV1"}
    /\ seed \in {NoSeed(file) : file \in SeedFiles}

SeedNext ==
    \/ SeedCounts
    \/ SeedSkips
    \/ SeedImports
    \/ \E row \in CsvRows : OnData(row)
    \/ OnEnd
    \/ DbWriteSucceeds
    \/ DbWriteFails
    \/ OnParserError
    \/ OnSourceError
    \/ SeedReturns
    \/ SeedThrows
    \/ \E p \in CreateInputs : CreateProductBeforeSeed(p)

SeedSpec == SeedInit /\ [][SeedNext]_vars

-----------------------------------------------------------------------------
(* POST /api/auth/signup over the two classes of part_000. A handler runs up to its  *)
(* next await in one step; the handlers of other requests run in between.            *)

Emails == {"ann@example.com", "bob@example.com"}

\* The request bodies: one that insertUserSchema accepts for each address, and one
\* without an email, on which insertUserSchema.parse throws.
Bodies == {[email |-> e, password |-> "pw"] : e \in Emails} \cup {[password |-> "pw"]}

SignupFrame ==
    UNCHANGED <<twin, second, seed, backend, products, nextId, source, stream,
                streamState, productsToInsert, promise, dbWrite, calls, directCalls,
                ret, hist>>

\* Array.from(this.users.values()).find(user => user.email === email) /
\* select().from(users).where(eq(users.email, email)), then result[0]: whether a
\* user is found.
GetUserByEmail(us, email) == \E i \in DOMAIN us : us[i].email = email

\* MemStorage.createUser: this.users.set(id, user) under a fresh randomUUID(); the
\* identifier is the position of the insertion.
MemCreateUser(us, email) == Append(us, [id |-> Len(us) + 1, email |-> email])

\* The users table refuses a row whose email is already there (email ... unique()).
DbInsertUserAccepted(us, email) == ~GetUserByEmail(us, email)

\* The handler starts: insertUserSchema.parse(req.body), which throws into the catch
\* (400), or the call of getUserByEmail. MemStorage looks the address up during the
\* call; DrizzleStorage sends the SELECT.
SignupParses(r, body) ==
    /\ requests[r].state = "none"
    /\ requests' = [requests EXCEPT ![r] =
           IF "email" \notin DOMAIN body
           THEN [state |-> "done", email |-> "", status |-> 400,
                 message |-> "Invalid user data"]
           ELSE IF backend = "mem"
                THEN [state |-> IF GetUserByEmail(users, body.email)
                                THEN "found" ELSE "notFound",
                      email |-> body.email, status |-> 0, message |-> ""]
                ELSE [state |-> "selecting", email |-> body.email, status |-> 0,
                      message |-> ""]]
    /\ UNCHANGED users
    /\ SignupFrame

\* The database runs the SELECT of DrizzleStorage.getUserByEmail.
DbSelectsUser(r) ==
    /\ requests[r].state = "selecting"
    /\ requests' = [requests EXCEPT ![r].state =
           IF GetUserByEmail(users, requests[r].email) THEN "found" ELSE "notFound"]
    /\ UNCHANGED users
    /\ SignupFrame

\* if (existingUser) return res.status(400).json({ message: "User already exists" })
SignupFindsExisting(r) ==
    /\ requests[r].state = "found"
    /\ requests' = [requests EXCEPT ![r].state = "done", ![r].status = 400,
                                    ![r].message = "User already exists"]
    /\ UNCHANGED users
    /\ SignupFrame

\* No existing user: the call of createUser. MemStorage stores the user during the
\* call; DrizzleStorage sends the INSERT.
SignupCreatesUser(r) ==
    /\ requests[r].state = "notFound"
    /\ IF backend = "mem"
       THEN /\ users' = MemCreateUser(users, requests[r].email)
            /\ requests' = [requests EXCEPT ![r].state = "created"]
       ELSE /\ requests' = [requests EXCEPT ![r].state = "inserting"]
            /\ UNCHANGED users
    /\ SignupFrame

\* The database runs the INSERT of DrizzleStorage.createUser: the row is stored, or
\* the unique constraint on email refuses it and the awaited promise rejects.
DbInsertsUser(r) ==
    /\ requests[r].state = "inserting"
    /\ IF DbInsertUserAccepted(users, requests[r].email)
       THEN /\ users' = Append(users, [id |-> Len(users) + 1,
                                        email |-> requests[r].email])
            /\ requests' = [requests EXCEPT ![r].state = "created"]
       ELSE /\ requests' = [requests EXCEPT ![r].state = "threw"]
            /\ UNCHANGED users
    /\ SignupFrame

\* res.json({ user: ... }) after createUser returned (status 200).
SignupResponds(r) ==
    /\ requests[r].state = "created"
    /\ requests' = [requests EXCEPT ![r].state = "done", ![r].status = 200]
    /\ UNCHANGED users
    /\ SignupFrame

\* catch (error): res.status(400).json({ message: "Invalid user data", ... }) after
\* createUser threw.
SignupCatches(r) ==
    /\ requests[r].state = "threw"
    /\ requests' = [requests EXCEPT ![r].state = "done", ![r].status = 400,
                                    ![r].message = "Invalid user data"]
    /\ UNCHANGED users
    /\ SignupFrame

SignupInit == Init /\ backend \in {"mem", "drizzle"}

SignupNext ==
    \E r \in 1..MaxRequests :
        \/ \E body \in Bodies : SignupParses(r, body)
        \/ DbSelectsUser(r)
        \/ SignupFindsExisting(r)
        \/ SignupCreatesUser(r)
        \/ DbInsertsUser(r)
        \/ SignupResponds(r)
        \/ SignupCatches(r)

SignupSpec == SignupInit /\ [][SignupNext]_vars

-----------------------------------------------------------------------------
(* The two classes of part_000 side by side: a MemStorage (products) and a         *)
(* DrizzleStorage (twin.products), both empty at first, are given the same calls.  *)
(* The database is reachable throughout; it refuses a statement only for its data. *)

\* importProductsFromCsv(stream) is called on both stores with streams of the same rows.
BothImportProductsFromCsv ==
    /\ calls < MaxCalls
    /\ streamState # "flowing"
    /\ calls' = calls + 1
    /\ source' = Fresh
    /\ stream' = <<>>
    /\ streamState' = "flowing"
    /\ productsToInsert' = <<>>
    /\ promise' = Pending
    /\ twin' = [twin EXCEPT !.promise = Pending, !.ret = NoReturn]
    /\ ret' = NoReturn
    /\ UNCHANGED <<second, seed, users, requests, backend, products, nextId, dbWrite, directCalls, hist>>

\* Both parsers emit "end". The "data" handlers of the two classes are the same code,
\* so both batches are productsToInsert. MemStorage creates each product and resolves;
\* DrizzleStorage awaits the upsert and resolves after it, and when the database
\* refuses the statement the await throws and the promise is never settled.
BothOnEnd ==
    /\ streamState = "flowing"
    /\ streamState' = "ended"
    /\ products' = MemForEachCreate(products, productsToInsert)
    /\ promise' = Resolved(ResolvedCount(productsToInsert))
    /\ twin' = IF productsToInsert = <<>>
               THEN [twin EXCEPT !.promise = Resolved(ResolvedCount(productsToInsert))]
               ELSE IF DbUpsertAccepted(productsToInsert)
               THEN [twin EXCEPT !.products = DbUpsertRows(@, productsToInsert),
                                 !.promise = Resolved(ResolvedCount(productsToInsert))]
               ELSE twin
    /\ ret' = NoReturn
    /\ UNCHANGED <<second, seed, users, requests, backend, nextId, source, stream, productsToInsert, dbWrite, calls,
                   directCalls, hist>>

\* updateProduct(id, updates) is called on both stores.
BothUpdateProduct(id, updates) ==
    /\ directCalls < MaxDirectCalls
    /\ directCalls' = directCalls + 1
    /\ products' = MemUpdateProduct(products, id, updates)
    /\ ret' = IF MapHas(products, id)
              THEN Returned("updateProduct", id, updates,
                            Spread(MapGet(products, id), updates))
              ELSE ReturnedUndefined("updateProduct", id, updates)
    /\ twin' = IF ~DbUpdateAccepted(twin.products, id, updates)
               THEN [twin EXCEPT !.ret = Threw("updateProduct", id, updates)]
               ELSE IF TableHas(twin.products, id)
               THEN [twin EXCEPT
                        !.products = DbUpdateRow(@, id, updates),
                        !.ret = Returned("updateProduct", id, updates,
                                         DbUpdateRow(twin.products, id, updates)
                                             [IndexOfId(twin.products, id,
                                                        Len(twin.products))])]
               ELSE [twin EXCEPT !.ret = ReturnedUndefined("updateProduct", id, updates)]
    /\ UNCHANGED <<second, seed, users, requests, backend, nextId, source, stream, streamState, productsToInsert,
                   promise, dbWrite, calls, hist>>

SideBySideInit == Init /\ backend = "mem"

SideBySideNext ==
    \/ BothImportProductsFromCsv
    \/ \E row \in Rows : OnData(row)
    \/ BothOnEnd
    \/ \E a \in UpdateInputs : BothUpdateProduct(a[1], a[2])

SideBySideSpec == SideBySideInit /\ [][SideBySideNext]_vars

-----------------------------------------------------------------------------
(* Vocabulary of the properties *)

\* The text is an integer literal.
IsIntegerText(v) ==
    v \in {"0", "3", "5", "7", "10", "20", "30", "40", "50", "80", "95", "100", "120"}

\* A row is well-formed: every required field is present and coercible to its type.
WellFormedRow(row) ==
    IF backend = "drizzleV1"
    THEN /\ \A c \in {"name", "category", "brand"} : Truthy(row[c])
         /\ \A c \in {"price", "rating", "profitMargin"} : IsDecimalText(row[c])
         /\ \A c \in {"salesVolume", "stock", "reviewCount"} : IsIntegerText(row[c])
         /\ ~V1RowThrows(row)
         /\ row.launchDate \in DOMAIN DateTable
    ELSE /\ \A c \in {"product_id", "title", "category"} : Truthy(row[c])
         /\ \A c \in {"price", "rating", "profit_margin"} : IsDecimalText(row[c])
         /\ \A c \in {"reviews", "estimated_demand"} : IsIntegerText(row[c])
         /\ row.date \in DOMAIN DateTable

\* The product the "data" handler builds from a row.
BuiltFrom(row) ==
    IF backend = "drizzleV1" THEN V1RowToInsertProduct(row, calls) ELSE RowToInsertProduct(row)

\* The row passes the per-row validation of the "data" handler.
PassesValidation(row) == OnDataHandler(<<>>, row, calls) # <<>>

\* The positions of a sequence whose element satisfies a test.
ValidPositions(rows) == {i \in 1..Len(rows) : PassesValidation(rows[i])}
WellFormedPositions(rows) == {i \in 1..Len(rows) : WellFormedRow(rows[i])}
MalformedPositions(rows) == {i \in 1..Len(rows) : ~WellFormedRow(rows[i])}

\* The identifiers a batch carries (product_id shape).
BatchIds(batch) == {batch[i].product_id : i \in 1..Len(batch)}

\* The last product of the batch with identifier id.
LastWithId(batch, id) ==
    batch[CHOOSE i \in 1..Len(batch) :
            /\ batch[i].product_id = id
            /\ \A j \in (i + 1)..Len(batch) : batch[j].product_id # id]

\* A stored field holds the value written: decimals compare by value (the persistent
\* store returns them in the column's scale), everything else literally.
SameFieldValue(c, stored, written) ==
    IF backend = "drizzle" /\ c \in DecimalColumns /\ stored # Null /\ written # Null
    THEN DecimalTable[stored] = DecimalTable[written]
    ELSE stored = written

\* The importProductsFromCsv call has resolved and the store is as its batch write left it.
JustResolved == promise.state = "resolved" /\ hist.fresh

-----------------------------------------------------------------------------
(* Properties of ingestion *)

\* C1: running importProductsFromCsv a second time on the identical stream, with no
\* other write in between, leaves the store with the same products and the same
\* getProductCount() as the first run left it.
C1_ReingestIsIdempotent ==
    (JustResolved /\ hist.succession) =>
        /\ GetProductCount(products) = GetProductCount(hist.before)
        /\ {products[i] : i \in 1..Len(products)} = {hist.before[i] : i \in 1..Len(hist.before)}

\* C1, for the two stores that ingest by upsert (MemStorage and DrizzleStorage of
\* part_000): the second run changes nothing, the store order included.
C1_UpsertReingestIsIdempotent ==
    (JustResolved /\ hist.succession /\ backend \in {"mem", "drizzle"}) => products = hist.before

C1_UpsertReingestWitness ==
    JustResolved /\ hist.succession /\ backend = "drizzle" /\ Len(products) = 2

\* C2: a stream of N well-formed rows and one malformed row resolves with N; the N
\* well-formed rows are in the store, and the malformed row has put no product there.
C2_OneMalformedRowIsSkipped ==
    (/\ JustResolved
     /\ Cardinality(MalformedPositions(stream)) = 1
     /\ Cardinality(WellFormedPositions(stream)) >= 1) =>
        /\ promise.value = Cardinality(WellFormedPositions(stream))
        /\ backend \in {"mem", "drizzle"} =>
            /\ \A i \in WellFormedPositions(stream) :
                   HasProduct(products, stream[i].product_id)
            /\ \A i \in MalformedPositions(stream) :
                   (/\ ~HasProduct(hist.before, stream[i].product_id)
                    /\ \A j \in WellFormedPositions(stream) :
                          stream[j].product_id # stream[i].product_id)
                   => ~HasProduct(products, stream[i].product_id)

\* C3: a valid ingested row whose identifier is already in the store adds no record
\* (the count grows only by the new identifiers), and getProduct(id) afterwards returns
\* a single product carrying the row's value in every field.
C3_UpsertReplacesExisting ==
    (JustResolved /\ backend \in {"mem", "drizzle"}) =>
        /\ GetProductCount(products) =
              GetProductCount(hist.before)
                + Cardinality(BatchIds(productsToInsert) \ StoreIds(hist.before))
        /\ \A id \in BatchIds(productsToInsert) \cap StoreIds(hist.before) :
              /\ HasProduct(products, id)
              /\ DOMAIN GetProduct(products, id) = CsvColumns
              /\ \A c \in CsvColumns \ {"product_id"} :
                    SameFieldValue(c, GetProduct(products, id)[c],
                                   LastWithId(productsToInsert, id)[c])

\* C3, witnessed: the persistent store held A1 at price 100, the batch re-priced it.
C3_Witness ==
    /\ JustResolved
    /\ backend = "drizzle"
    /\ HasProduct(hist.before, "A1")
    /\ GetProduct(hist.before, "A1").price = "100.00"
    /\ "A1" \in BatchIds(productsToInsert)
    /\ GetProduct(products, "A1").price = "120.00"
    /\ GetProductCount(products) = GetProductCount(hist.before)

\* C4: an identifier getProduct answers for keeps being answered for after every step,
\* and getProductCount() never decreases.
C4_NoSilentDeletion ==
    [][/\ \A id \in StoreIds(products) : id \in StoreIds(products')
       /\ GetProductCount(products') >= GetProductCount(products)]_vars

\* C5: the promise resolves with exactly the number of rows that passed validation,
\* whatever number of records the batch write inserted or changed.
C5_ResolvesWithValidatedRowCount ==
    promise.state = "resolved" => promise.value = Cardinality(ValidPositions(stream))

\* C5, witnessed: two rows passed validation and fewer than two records were added.
C5_Witness ==
    /\ JustResolved
    /\ promise.value = 2
    /\ GetProductCount(products) - GetProductCount(hist.before) < 2

\* C6: once the source stream has failed with an I/O error, the promise of the call is
\* rejected.
C6_SourceErrorRejects ==
    (streamState = "errored" /\ Quiescent) => promise.state = "rejected"

\* The call has ended in failure.
CallFailed == promise.state = "rejected" \/ streamState = "errored" \/ dbWrite = "failed"

\* C7: a failed ingestion commits nothing: the store is written only by the step that
\* resolves a call (or by a createProduct / updateProduct call), and a call that has
\* failed never resolves; so the rows it validated are discarded and what earlier calls
\* committed stays as it was.
C7_FailedIngestCommitsNothing ==
    [][/\ products' # products =>
             \/ directCalls' # directCalls
             \/ promise.state = "pending" /\ promise'.state = "resolved"
       /\ (CallFailed /\ calls' = calls) => (CallFailed' /\ promise'.state # "resolved")]_vars

\* C7, witnessed: a second call failed with a validated row in its batch, after the
\* first call had committed.
C7_Witness ==
    /\ calls = 2
    /\ backend = "drizzle"
    /\ dbWrite = "failed"
    /\ products # <<>>
    /\ productsToInsert # <<>>
    /\ \A id \in BatchIds(productsToInsert) : ~HasProduct(products, id)

\* C8: when the batch write of the "end" handler fails, the promise of the call is
\* rejected.
C8_StorageFailureRejects ==
    (dbWrite = "failed" /\ Quiescent) => promise.state = "rejected"

\* C9: no product built from a row with a required field absent or not coercible is in
\* the batch.
C9_MalformedRowsRejected ==
    \A i \in MalformedPositions(stream) :
        \/ backend = "drizzleV1" /\ V1RowThrows(stream[i])
        \/ \A j \in 1..Len(productsToInsert) : productsToInsert[j] # BuiltFrom(stream[i])

\* C10: no optional field of a product of the batch or of the store holds the text
\* "NULL" or the empty text.
C10_NullTextIsNull ==
    backend \in {"mem", "drizzle"} =>
        \A p \in {productsToInsert[i] : i \in 1..Len(productsToInsert)}
                 \cup {StoreValues(products)[i] : i \in 1..Len(products)} :
            \A c \in OptionalDecimalColumns \cup OptionalTextColumns : p[c] \notin {"NULL", ""}

-----------------------------------------------------------------------------
(* Properties of the reads *)

\* The product satisfies every filter supplied (bounds inclusive, 0 included).
SatisfiesFilters(p, filters) ==
    /\ "category" \in DOMAIN filters => p.category = filters.category
    /\ "minPrice" \in DOMAIN filters => Geq(ParseFloat(p.price), filters.minPrice)
    /\ "maxPrice" \in DOMAIN filters => Leq(ParseFloat(p.price), filters.maxPrice)
    /\ "minRating" \in DOMAIN filters => Geq(ParseFloat(p.rating), filters.minRating)

\* C11: in every store state and for every filter value supplied, each product
\* getProducts returns satisfies all the supplied predicates: price >= minPrice,
\* price <= maxPrice (inclusive, the bound 0 too), rating >= minRating, category equal.
C11_FilterSoundness ==
    \A filters \in FilterInputs, limit \in Limits, offset \in Offsets :
        \A result \in GetProducts(products, limit, offset, filters) :
            \A i \in 1..Len(result) : SatisfiesFilters(result[i], filters)

\* C12: pagination applies after filtering: for every filter there is one sequence,
\* the products the filter selects in store order, of which every
\* getProducts(limit, offset, filters) is exactly the positions offset .. offset+limit-1;
\* so a page holds at most limit products, and pages of disjoint ranges share no
\* product and omit none.
C12_PaginationAfterFiltering ==
    \A filters \in FilterInputs :
        \E selected \in GetProducts(products, Len(products), 0, filters) :
            \A limit \in Limits, offset \in Offsets :
                \A result \in GetProducts(products, limit, offset, filters) :
                    /\ result = Slice(selected, offset, offset + limit)
                    /\ Len(result) <= limit

\* C12, for the volatile stores: every page is the slice of the filtered values.
C12_MemPaginationAfterFiltering ==
    backend \in {"mem", "memV1"} => C12_PaginationAfterFiltering

-----------------------------------------------------------------------------
(* Properties of createProduct and updateProduct *)

\* The position in the store of the product getProduct(id) answers with.
StorePosition(st, id) ==
    IF backend \in {"mem", "memV1"} THEN IndexOfKey(st, id, Len(st))
    ELSE IndexOfId(st, id, Len(st))

\* The step is an updateProduct call, ret' telling its arguments and outcome.
UpdateStep == directCalls' # directCalls /\ ret'.op = "updateProduct"

\* The step's call merged its updates into the product at position i and returned
\* the merged product: the fields of updates hold the values given, every other field
\* of the product and every other entry of the store is as before.
UpdateMerged(i) ==
    LET u == ret'.updates
        old == StoreValues(products)[i]
        new == StoreValues(products')[i]
    IN  /\ ret'.status = "returned"
        /\ ret'.out = new
        /\ Len(products') = Len(products)
        /\ \A j \in 1..Len(products) : j # i => products'[j] = products[j]
        /\ backend \in {"mem", "memV1"} => products'[i].key = products[i].key
        /\ DOMAIN new = DOMAIN old \cup DOMAIN u
        /\ \A c \in DOMAIN u : SameFieldValue(c, new[c], u[c])
        /\ \A c \in DOMAIN old \ DOMAIN u : new[c] = old[c]

\* The step's call returned undefined and left the store as it was.
UpdateMissed == ret'.status = "undefined" /\ products' = products

\* The updates would give the product the identifier another stored product has.
RenamesOntoAnother(st, id, u) ==
    "product_id" \in DOMAIN u /\ u.product_id # id /\ HasProduct(st, u.product_id)

CreateStep == directCalls' # directCalls /\ ret'.op = "createProduct"

\* C14: createProduct fails when a product with the given identifier already exists,
\* and the failed call leaves the existing product (the whole store) unchanged.
C14_CreateRefusesExistingId ==
    [][(CreateStep /\ HasProduct(products, ret'.id)) =>
          (ret'.status = "threw" /\ products' = products)]_vars

\* C14, for the persistent store, where the identifier is the table's key.
C14_DrizzleCreateRefusesExistingId ==
    [][(CreateStep /\ backend = "drizzle" /\ HasProduct(products, ret'.id)) =>
          (ret'.status = "threw" /\ products' = products)]_vars

C14_DrizzleWitness ==
    /\ backend = "drizzle"
    /\ ret.op = "createProduct"
    /\ ret.status = "threw"
    /\ HasProduct(products, ret.id)

-----------------------------------------------------------------------------
(* Invariants of the catalog *)

\* The identifier of a stored product: product_id, or id in the name/brand shape.
IdOf(p) == IF backend \in {"mem", "drizzle"} THEN p.product_id ELSE p.id

\* C15: no two stored products have the same identifier, and getProduct answers with
\* each stored product under exactly its own identifier (in the volatile store the key
\* of every map entry is the identifier of the product stored under it).
C15_IdentifiersUnique ==
    LET stored == StoreValues(products)
    IN  /\ \A i, j \in 1..Len(stored) : i # j => IdOf(stored[i]) # IdOf(stored[j])
        /\ \A i \in 1..Len(stored) :
               /\ HasProduct(products, IdOf(stored[i]))
               /\ GetProduct(products, IdOf(stored[i])) = stored[i]
        /\ backend \in {"mem", "memV1"} =>
               \A i \in 1..Len(products) : products[i].key = IdOf(products[i].value)

\* C15, for the persistent stores, whose tables are keyed by the identifier.
C15_DrizzleIdentifiersUnique ==
    backend \in {"drizzle", "drizzleV1"} => C15_IdentifiersUnique

\* The profit margin of a stored product, in hundredths (NaN when it is not a number).
MarginOf(p) ==
    ParseFloat(IF backend \in {"mem", "drizzle"} THEN p.profit_margin ELSE p.profitMargin)

\* C16: every stored product has price >= 0, profit margin >= 0 and 0 <= rating <= 5.
C16_ValueRanges ==
    \A i \in 1..Len(products) :
        LET p == StoreValues(products)[i]
        IN  /\ Geq(ParseFloat(p.price), 0)
            /\ Geq(MarginOf(p), 0)
            /\ Geq(ParseFloat(p.rating), 0)
            /\ Leq(ParseFloat(p.rating), 500)

-----------------------------------------------------------------------------
(* Properties of the ranking views *)

\* The smaller of two numbers.
Min(a, b) == IF a < b THEN a ELSE b

\* The stored products a result leaves out.
Omitted(result) ==
    {p \in {StoreValues(products)[i] : i \in 1..Len(products)} :
        \A i \in 1..Len(result) : IdOf(result[i]) # IdOf(p)}

\* The place in store order of the product with the identifier of p.
PlaceOf(p) ==
    CHOOSE i \in 1..Len(products) : IdOf(StoreValues(products)[i]) = IdOf(p)

\* The trend signal of a product: its event-impact score (none counting as 0), or its
\* sales volume in the name/brand shape.
TrendSignal(p) ==
    IF backend \in {"mem", "drizzle"}
    THEN IF p.event_impact = Null THEN 0 ELSE ParseFloat(p.event_impact)
    ELSE p.salesVolume

\* C17: getTrendingProducts(limit) returns min(limit, number of stored products)
\* products by trend signal descending; no omitted product has a strictly greater
\* signal than a returned one; products of equal signal come in store order.
C17_TrendingRanking ==
    \A limit \in Limits :
        \A result \in GetTrendingProducts(products, limit) :
            /\ Len(result) = Min(limit, Len(products))
            /\ \A i, j \in 1..Len(result) :
                   i < j =>
                      /\ Geq(TrendSignal(result[i]), TrendSignal(result[j]))
                      /\ TrendSignal(result[i]) = TrendSignal(result[j])
                            => PlaceOf(result[i]) < PlaceOf(result[j])
            /\ \A p \in Omitted(result) :
                   \A i \in 1..Len(result) : Geq(TrendSignal(result[i]), TrendSignal(p))

\* C17, for the volatile store of part_000 while every stored event impact is a
\* number or null.
C17_MemTrendingRanking ==
    (/\ backend = "mem"
     /\ \A i \in 1..Len(products) : TrendSignal(products[i].value) # NaN)
        => C17_TrendingRanking

\* C18: getTopProfitProducts(limit) returns min(limit, number of stored products)
\* products in descending profit-margin order, and every returned product has a
\* margin >= that of every product not returned (limit 1: the highest margin).
C18_TopProfitRanking ==
    \A limit \in Limits :
        \A result \in GetTopProfitProducts(products, limit) :
            /\ Len(result) = Min(limit, Len(products))
            /\ \A i, j \in 1..Len(result) :
                   i < j => Geq(MarginOf(result[i]), MarginOf(result[j]))
            /\ \A p \in Omitted(result) :
                   \A i \in 1..Len(result) : Geq(MarginOf(result[i]), MarginOf(p))

\* C18, while every stored margin is a number.
C18_NumericTopProfitRanking ==
    (\A i \in 1..Len(products) : MarginOf(StoreValues(products)[i]) # NaN)
        => C18_TopProfitRanking

\* C18, witnessed: of two stored products the one with the higher margin, stored
\* second, is the top-1.
C18_NumericWitness ==
    /\ Len(products) = 2
    /\ \A i \in 1..Len(products) : MarginOf(StoreValues(products)[i]) # NaN
    /\ MarginOf(StoreValues(products)[2]) > MarginOf(StoreValues(products)[1])
    /\ \A result \in GetTopProfitProducts(products, 1) :
           IdOf(result[1]) = IdOf(StoreValues(products)[2])

-----------------------------------------------------------------------------
(* Properties of the aggregation views *)

\* The volume field of a stored product.
VolumeOf(p) == IF backend \in {"mem", "drizzle"} THEN p.estimated_demand ELSE p.salesVolume

\* The categories that have a stored product.
StoredCategories == {StoreValues(products)[i].category : i \in 1..Len(products)}

\* The sum of the volume field over the stored products of a category.
RECURSIVE VolumeOfCategory(_, _)
VolumeOfCategory(category, n) ==
    IF n = 0 THEN 0
    ELSE VolumeOfCategory(category, n - 1)
           + (IF StoreValues(products)[n].category = category
              THEN VolumeOf(StoreValues(products)[n]) ELSE 0)

\* C19: getCategoryPerformance returns exactly one entry per category that has a
\* stored product, and the sales of each entry is the sum of the volume field over the
\* stored products of that category.
C19_CategoryRollUp ==
    \A result \in GetCategoryPerformance(products) :
        /\ {result[i].category : i \in 1..Len(result)} = StoredCategories
        /\ Len(result) = Cardinality(StoredCategories)
        /\ \A i \in 1..Len(result) :
               result[i].sales = VolumeOfCategory(result[i].category, Len(products))

\* C19, for the stores of the name/brand revisions, which compute the roll-up.
C19_V1CategoryRollUp == backend \in {"memV1", "drizzleV1"} => C19_CategoryRollUp

C19_V1Witness ==
    /\ backend = "drizzleV1"
    /\ Len(products) >= 2
    /\ \A result \in GetCategoryPerformance(products) :
           Len(result) = 1 /\ result[1].sales = 14

\* A call whose results on the current store are all the same one.
Deterministic(outcomes) == \A one, another \in outcomes : one = another

\* C20: calling getTrendingProducts, getTopProfitProducts, getUnderperformingProducts,
\* getCategoryPerformance or getDashboardMetrics twice on an unchanged store returns
\* the same products in the same order with identical values in every field, the
\* growth fields included.
C20_ViewsDeterministic ==
    /\ \A limit \in Limits :
           /\ Deterministic(GetTrendingProducts(products, limit))
           /\ Deterministic(GetTopProfitProducts(products, limit))
           /\ Deterministic(GetUnderperformingProducts(products, limit))
    /\ Deterministic(GetCategoryPerformance(products))
    /\ Deterministic(GetDashboardMetrics(products))

\* C20, for the in-memory store of part_000 while every ranking key is a number: its
\* views report growth 0 and sort stably.
C20_MemViewsDeterministic ==
    (/\ backend = "mem"
     /\ \A i \in 1..Len(products) :
            /\ TrendSignal(StoreValues(products)[i]) # NaN
            /\ MarginOf(StoreValues(products)[i]) # NaN)
        => C20_ViewsDeterministic

\* C20: getDashboardMetrics alone returns the same values on an unchanged store.
C20_DashboardDeterministic == Deterministic(GetDashboardMetrics(products))

-----------------------------------------------------------------------------
(* Properties of searchProducts *)

\* The title of a product (its name, in the name/brand shape).
TitleOf(p) == IF backend \in {"mem", "drizzle"} THEN p.title ELSE p.name

\* The text contains the query when letter case is ignored on both sides.
ContainsIgnoringCase(text, query) ==
    Includes(LowerCased(Characters[text]), LowerCased(Characters[query]))

\* The stored products whose title contains the query, in store order; in the
\* name/brand shape the products whose name, brand or category does are accepted too.
TitleMatches(query) ==
    LET Keeps(p) == ContainsIgnoringCase(TitleOf(p), query)
    IN  SelectSeq(StoreValues(products), Keeps)

AnyFieldMatches(query) ==
    LET Keeps(p) ==
            \/ ContainsIgnoringCase(TitleOf(p), query)
            \/ ContainsIgnoringCase(p.category, query)
            \/ backend \in {"memV1", "drizzleV1"} /\ ContainsIgnoringCase(p.brand, query)
    IN  SelectSeq(StoreValues(products), Keeps)

\* C21: searchProducts(query) returns exactly the stored products whose title contains
\* the query as a substring when letter case is ignored on both sides, in store order.
C21_SearchIgnoresCase ==
    \A query \in Queries :
        \A result \in SearchProducts(products, query) :
            \/ result = TitleMatches(query)
            \/ backend \in {"memV1", "drizzleV1"} /\ result = AnyFieldMatches(query)

\* C21, for queries in lower case on the in-memory stores.
C21_MemLowerCaseSearch ==
    backend \in {"mem", "memV1"} =>
        \A query \in {"wid", "get"} :
            \A result \in SearchProducts(products, query) :
                result \in {TitleMatches(query), AnyFieldMatches(query)}

-----------------------------------------------------------------------------
(* Equivalence of the two stores of part_000 (under SideBySideSpec) *)

\* A product of the MemStorage and a row of the DrizzleStorage are the same product:
\* the same fields, a decimal being the same number whatever its scale.
SameProduct(m, d) == DbRowFits(m) /\ DbStoredRow(m) = d

SameProducts(ms, ds) ==
    Len(ms) = Len(ds) /\ \A i \in 1..Len(ms) : SameProduct(ms[i], ds[i])

\* Every result the one call may return is the same as every result of the other.
SameResults(memResults, dbResults) ==
    \A m \in memResults : \A d \in dbResults : SameProducts(m, d)

\* The two stores hold the same products.
SameContents ==
    /\ Len(products) = Len(twin.products)
    /\ \A i \in 1..Len(products) :
           \E j \in 1..Len(twin.products) : SameProduct(products[i].value, twin.products[j])

\* updateProduct and importProductsFromCsv returned the same on both stores.
SameReturns ==
    /\ ret.status = twin.ret.status
    /\ ret.status = "returned" => SameProduct(ret.out, twin.ret.out)
    /\ promise = twin.promise

\* getProduct, getProductCount, getProducts and the ranking views return the same.
SameReads ==
    /\ GetProductCount(products) = GetProductCount(twin.products)
    /\ \A id \in {"A1", "A2", "A3"} :
           /\ MapHas(products, id) = TableHas(twin.products, id)
           /\ MapHas(products, id) =>
                  SameProduct(MapGet(products, id), TableGet(twin.products, id))
    /\ \A limit \in Limits :
           /\ \A offset \in Offsets : \A filters \in FilterInputs :
                  SameResults(GetProducts(products, limit, offset, filters),
                              DbGetProducts(twin.products, limit, offset, filters))
           /\ SameResults(GetTrendingProducts(products, limit),
                          DbGetTrendingProducts(twin.products, limit))
           /\ SameResults(GetTopProfitProducts(products, limit),
                          DbGetTopProfitProducts(twin.products, limit))
           /\ SameResults(GetUnderperformingProducts(products, limit),
                          DbGetUnderperformingProducts(twin.products, limit))

\* C22: started from equal contents and given the same sequence of getProduct,
\* getProducts, updateProduct, importProductsFromCsv, getProductCount and ranking-view
\* calls, with no storage outage, the persistent and the volatile store return equal
\* results at every step and hold equal contents.
C22_BackendsEquivalent ==
    streamState # "flowing" => SameReturns /\ SameContents /\ SameReads

\* C22, for a batch the database accepts: when the two stores held the same products,
\* each under its own identifier, they hold the same products after the call.
C22_AcceptedBatchKeepsContentsEqual ==
    [][(/\ streamState = "flowing" /\ streamState' = "ended"
        /\ twin'.promise.state = "resolved"
        /\ SameContents
        /\ \A i \in 1..Len(products) : products[i].key = products[i].value.product_id)
           => SameContents']_vars

-----------------------------------------------------------------------------
(* Properties of the batch write (under Spec) *)

\* The step is one of an importProductsFromCsv call and changes the store.
BatchWriteStep == products' # products /\ directCalls' = directCalls

\* Every product of the batch is in the store after the step.
WholeBatchWritten ==
    IF backend = "drizzleV1"
    THEN Len(products') = Len(products) + Len(productsToInsert)
    ELSE \A i \in 1..Len(productsToInsert) :
            \E j \in 1..Len(products') :
                StoreValues(products')[j].product_id = productsToInsert[i].product_id

\* C23: during an importProductsFromCsv call the store is not modified while rows are
\* being read and validated; it is written only after the stream has ended, in one
\* batch write per call (the step that resolves the call), never row by row.
C23_SingleBatchCommit ==
    [][/\ stream' # stream => products' = products
       /\ BatchWriteStep =>
              /\ streamState' = "ended"
              /\ promise.state = "pending" /\ promise'.state = "resolved"
              /\ WholeBatchWritten]_vars

\* A call that read two valid rows has written them, in the step that resolved it.
C23_Witness ==
    /\ promise.state = "resolved"
    /\ hist.fresh
    /\ Len(stream) = 2
    /\ Len(productsToInsert) = 2
    /\ Len(products) = Len(hist.before) + 2

-----------------------------------------------------------------------------
(* Properties of the reads among the writes (under ReadSpec) *)

ReadOperations ==
    {"getProduct", "getProducts", "getProductsByCategory", "searchProducts",
     "getProductCount", "getTrendingProducts", "getTopProfitProducts",
     "getUnderperformingProducts"}

\* The step is a read returning.
ReadStep == ret'.op \in ReadOperations

\* The step is one of a running importProductsFromCsv call.
ImportStep == ret'.op = "none" /\ directCalls' = directCalls /\ calls' = calls

\* Every validated row of the batch is applied to the MemStorage map m: the entry of
\* its identifier holds the last row of the batch with that identifier.
AllApplied(m, batch) ==
    \A i \in 1..Len(batch) :
        /\ MapHas(m, batch[i].product_id)
        /\ MapGet(m, batch[i].product_id) = LastWithId(batch, batch[i].product_id)

\* C24: on the volatile store no read interleaved with a running importProductsFromCsv
\* observes some but not all of the call's validated rows applied: every step of the
\* call leaves the store as it was or leaves it with all of them applied, and the
\* reads, which run between the steps, change nothing.
C24_AtomicBatchVisibility ==
    [][/\ (backend = "mem" /\ ImportStep) =>
              \/ products' = products
              \/ AllApplied(products', productsToInsert)
       /\ (backend = "mem" /\ ReadStep /\ streamState = "flowing") =>
              products' = products /\ productsToInsert' = productsToInsert]_vars

\* A read returned while a call had validated rows not yet applied, and the call
\* applied its two products afterwards.
C24_ReadDuringCall ==
    /\ backend = "mem"
    /\ streamState = "flowing"
    /\ Len(productsToInsert) = 2
    /\ productsToInsert[1].product_id # productsToInsert[2].product_id
    /\ ret.op = "getProductCount"
    /\ ret.out = 0

\* C25: getProduct, getProducts, getProductsByCategory, searchProducts,
\* getProductCount and the three ranking views leave the product set, every product's
\* fields and the store order unchanged.
C25_ReadsEffectFree == [][ReadStep => products' = products]_vars

\* A ranking returned two products in another order than the store holds them.
C25_Witness ==
    /\ ret.op = "getTopProfitProducts"
    /\ Len(products) = 2
    /\ Len(ret.out) = 2
    /\ IdOf(ret.out[1]) = IdOf(products[2].value)
    /\ IdOf(ret.out[2]) = IdOf(products[1].value)

-----------------------------------------------------------------------------
(* Properties of the means in the roll-ups (under Spec) *)

\* The mean is a number, and 0 when it has no members to average.
DefinedMean(mean, members) == mean.num # NaN /\ (members = 0 => mean.num = 0)

\* The number of stored products of a category.
MembersOf(category) ==
    Cardinality({i \in 1..Len(products) : StoreValues(products)[i].category = category})

\* C26: in every reachable store state, the empty store included, every mean returned
\* by getCategoryPerformance and getDashboardMetrics (mean profit margin, mean rating)
\* is a defined number, 0 when there are no members to average, never NaN.
C26_MeansDefined ==
    /\ \A metrics \in GetDashboardMetrics(products) :
           \A mean \in {"avgProfitMargin", "avgRating"} \cap DOMAIN metrics :
               DefinedMean(metrics[mean], Len(products))
    /\ \A performance \in GetCategoryPerformance(products) :
           \A i \in 1..Len(performance) :
               DefinedMean(performance[i].profitMargin, MembersOf(performance[i].category))

\* C26, for a store that holds a product.
C26_MeansDefinedOnNonEmptyStore == products # <<>> => C26_MeansDefined

-----------------------------------------------------------------------------
(* The store after a successful ingest (under Spec) *)

\* The batch is the products of the valid rows of the stream, in row order.
BatchOfValidRows ==
    /\ Len(productsToInsert) = Cardinality(ValidPositions(stream))
    /\ \A i \in 1..Len(productsToInsert) :
           \E k \in ValidPositions(stream) :
               /\ Cardinality({j \in ValidPositions(stream) : j <= k}) = i
               /\ productsToInsert[i] = RowToInsertProduct(stream[k])

\* C27: when importProductsFromCsv resolves, the store is the previous store overridden
\* by the call's valid rows in row order: getProductCount() is the number of distinct
\* identifiers among the previously stored products and the valid rows, a product whose
\* identifier no valid row carries is as before, and a product whose identifier valid
\* rows carry has the fields of the last such row.
C27_StoreAfterIngest ==
    (JustResolved /\ backend \in {"mem", "drizzle"}) =>
        /\ BatchOfValidRows
        /\ GetProductCount(products) =
              Cardinality(StoreIds(hist.before) \cup BatchIds(productsToInsert))
        /\ StoreIds(products) = StoreIds(hist.before) \cup BatchIds(productsToInsert)
        /\ \A id \in StoreIds(hist.before) \ BatchIds(productsToInsert) :
              GetProduct(products, id) = GetProduct(hist.before, id)
        /\ \A id \in BatchIds(productsToInsert) :
              \A c \in CsvColumns :
                  SameFieldValue(c, GetProduct(products, id)[c],
                                 LastWithId(productsToInsert, id)[c])

\* Two valid rows of one batch carried the identifier A1, which the store held already
\* beside another product: the store holds the second row's price for A1.
C27_Witness ==
    /\ JustResolved
    /\ backend = "mem"
    /\ Len(productsToInsert) = 2
    /\ BatchIds(productsToInsert) = {"A1"}
    /\ productsToInsert[1].price = "100"
    /\ productsToInsert[2].price = "120"
    /\ StoreIds(hist.before) = {"A1", "A2"}
    /\ GetProduct(products, "A1").price = "120"
    /\ GetProductCount(products) = 2

-----------------------------------------------------------------------------
(* Overlapping ingests (under OverlapSpec) *)

RECURSIVE ValidBatch(_)
\* The products of the rows a call's "data" handler validates, in row order.
ValidBatch(rows) ==
    IF rows = <<>> THEN <<>>
    ELSE OnDataHandler(ValidBatch(SubSeq(rows, 1, Len(rows) - 1)), rows[Len(rows)], calls)

\* The store left by running the call on rows first and the call on others after it,
\* each to its end.
OneAfterTheOther(before, rows, others) ==
    MemForEachCreate(MemForEachCreate(before, ValidBatch(rows)), ValidBatch(others))

BothResolved == promise.state = "resolved" /\ second.promise.state = "resolved"

\* C28: when two importProductsFromCsv calls on one volatile store overlap, their row
\* events interleaving in any way, the final store is the one that running the two
\* calls one after the other in some order leaves, and each call resolves with the
\* number of its own valid rows.
C28_OverlappingIngestsSerialisable ==
    BothResolved =>
        /\ \/ products = OneAfterTheOther(second.before, stream, second.stream)
           \/ products = OneAfterTheOther(second.before, second.stream, stream)
        /\ promise.value = Len(ValidBatch(stream))
        /\ second.promise.value = Len(ValidBatch(second.stream))

\* The two calls overlapped, each read two rows, one of them skipped a row, and the
\* order in which they ended decided the price of A1.
C28_Witness ==
    /\ BothResolved
    /\ Len(stream) = 2 /\ Len(second.stream) = 2
    /\ promise.value = 2
    /\ second.promise.value = 1
    /\ products # OneAfterTheOther(second.before, stream, second.stream)
    /\ products = OneAfterTheOther(second.before, second.stream, stream)

-----------------------------------------------------------------------------
(* Seeding (under SeedSpec) *)

\* C29: seed() and the start-up seeding block import data/products.csv only when
\* getProductCount() is 0; on a store that holds a product the call leaves the store
\* unchanged, so the store after two calls in succession that returned, and after
\* every later one, is the store the first call left.
C29_SeedOnlyEmptyStore ==
    [][/\ (seed.state # "idle" /\ seed.productCount # 0) =>
              products' = products /\ calls' = calls
       /\ (seed.state # "idle" /\ calls' # calls) => GetProductCount(products) = 0
       /\ (seed'.runs >= 2 /\ ~seed'.threw) => products' = seed'.after]_vars

\* The first call seeded an empty store with two products, the second one found them
\* and imported nothing.
C29_Witness ==
    /\ seed.runs = 2
    /\ seed.state = "idle"
    /\ ~seed.threw
    /\ seed.productCount = 2
    /\ calls = 1
    /\ directCalls = 0
    /\ GetProductCount(products) = 2

-----------------------------------------------------------------------------
(* Signup (under SignupSpec) *)

\* No two stored users have the same email address.
EmailsUnique == \A i, j \in DOMAIN users : users[i].email = users[j].email => i = j

\* At most one of the requests for one address was answered with success.
OneSuccessPerEmail ==
    \A r, q \in 1..MaxRequests :
        (/\ requests[r].state = "done" /\ requests[r].status = 200
         /\ requests[q].state = "done" /\ requests[q].status = 200
         /\ requests[r].email = requests[q].email) => r = q

\* C30: after any interleaving of POST /api/auth/signup requests no two stored users
\* have the same email address, and at most one of the requests for one address is
\* answered with success.
C30_EmailUniqueUnderConcurrentSignup == EmailsUnique /\ OneSuccessPerEmail

\* C30, on DrizzleStorage: the unique constraint of the users table refuses the
\* second row, and the request that sent it is answered with 400.
C30_EmailUniqueOnDrizzle == backend = "drizzle" => EmailsUnique /\ OneSuccessPerEmail

====
